---- MODULE Spec2Model ----
(***************************************************************************)
(* Helix inference accelerator: the paged KV cache (src/src/kv_cache.py),  *)
(* the speculative step and the blocking decoders                          *)
(* (src/src/speculative.py) and the streaming generator                    *)
(* (src/src/inference.py), as state machines.                              *)
(***************************************************************************)
EXTENDS Integers, Sequences, FiniteSets, TLC

(***************************************************************************)
(* Bounds of the model.                                                    *)
(***************************************************************************)
NumBlocks == 3          \* num_blocks given to BlockAllocator
BlockSize == 2          \* block_size given to BlockAllocator
MaxSeqId == 3           \* allocate_sequence is not called once _next_seq_id reaches this
MaxDirect == 2          \* direct calls of BlockAllocator.allocate / free in one run
MaxStore == 2           \* longest slice of new positions in one store_hf_cache call
MaxLaneTokens == 3      \* mark_token_complete is not called beyond this many tokens
NumLayers == 2          \* num_layers given to PagedKVCache
MaxValue == 2           \* K/V entries of an ingested tensor are numbers 1 .. MaxValue
MaxDepth == 3           \* min_depth, initial_depth and max_depth of a controller fed by hand are in 1 .. MaxDepth
MaxFeed == 6            \* acceptance rates fed to such a controller
MaxRequests == 2        \* calls of HelixEngine.generate made one after the other
NumCallers == 2         \* callers running at the same time
MaxBatch == 2           \* largest number of prompts of a batch
MaxThreadCalls == 4     \* BlockAllocator calls the threads make in all
MaxRetry == 3           \* allocate_sequence calls made beyond the first NumBlocks ones

MaxPrompt == 2          \* longest prompt, in tokens
MaxTokens == 3          \* largest max_tokens of a request
MaxK == 2               \* largest speculation depth (max_depth of the adaptive decoder)
VocabSize == 2          \* vocabulary size V
Denom == 2              \* probabilities are multiples of 1/Denom
UDen == 2               \* the uniform draw u is a multiple of 1/UDen in [0, 1)

None == -1              \* Python's None for an Optional[int]

Max(a, b) == IF a >= b THEN a ELSE b
Min(a, b) == IF a <= b THEN a ELSE b
BlockIds == 0 .. (NumBlocks - 1)
Layers == 0 .. (NumLayers - 1)
Slots == 0 .. (BlockSize - 1)

VARIABLES
    free_blocks,        \* BlockAllocator.free_blocks (stack, top at the end)
    ref_count,          \* Block.ref_count of every block
    sequences,          \* PagedKVCache.sequences: seq_id -> SequenceBlockTable
    next_seq_id,        \* PagedKVCache._next_seq_id
    storage,            \* BlockAllocator._storage: block -> layer -> slot -> K/V entry
    held,               \* block ids a direct caller of BlockAllocator.allocate got and has not freed
    returned,           \* seq ids that allocate_sequence returned to its caller
    freed,              \* seq ids free_sequence was called with
    direct_calls,       \* how many direct BlockAllocator calls were made
    last_error,         \* outcome of the last cache call: "none" or the exception raised
    ingested,           \* per lane and layer, the new K/V entries its store_hf_cache calls took
    last_taken,         \* how many positions the last store_hf_cache call took (0 after another call)
    models,             \* the draft and the target model: the distribution each predicts
    engine,             \* HelixEngine: whether the models are loaded, its metrics, _generate_safe runs
    threads,            \* the locals of each of several callers running at the same time
    decoder,            \* fields of the SpeculativeDecoder / AdaptiveSpeculativeDecoder object
    req,                \* locals of one generate call and where it stands
    step                \* locals of one speculative_decode_step call

cacheVars == <<free_blocks, ref_count, sequences, next_seq_id, storage>>
envVars == <<held, returned, freed, direct_calls, last_error, ingested, last_taken>>
genVars == <<models, engine, threads, decoder, req, step>>
poolVars == <<cacheVars, envVars>>
notPool == <<genVars>>
vars == <<cacheVars, envVars, genVars>>

\* HelixEngine.__init__: nothing loaded, metrics at zero
EngineOff == [is_loaded |-> FALSE, total_requests |-> 0, total_tokens |-> 0, safe_runs |-> 0]

(***************************************************************************)
(* Block, BlockAllocator                                                   *)
(***************************************************************************)
Block_allocate(rc, b) == [rc EXCEPT ![b] = @ + 1]

Block_free(rc, b) == [rc EXCEPT ![b] = Max(0, @ - 1)]

is_free(rc, b) == rc[b] = 0

\* the cache state as one value: the allocator's list and counters, the lanes
Cache == [free_blocks |-> free_blocks, ref_count |-> ref_count,
          sequences |-> sequences, next_seq_id |-> next_seq_id,
          storage |-> storage]

allocate_top_kept(c) ==
    IF c.free_blocks = <<>>
    THEN [c |-> c, block_id |-> None]
    ELSE LET n == Len(c.free_blocks)
             b == c.free_blocks[n]
         IN  [c |-> [c EXCEPT !.ref_count = Block_allocate(c.ref_count, b)],
              block_id |-> b]

\* BlockAllocator.allocate: c with the block popped, and the id or None
allocate(c) ==
    IF c.free_blocks = <<>>
    THEN [c |-> c, block_id |-> None]
    ELSE LET n == Len(c.free_blocks)
             b == c.free_blocks[n]
         IN  [c |-> [c EXCEPT !.free_blocks = SubSeq(c.free_blocks, 1, n - 1),
                               !.ref_count = Block_allocate(c.ref_count, b)],
              block_id |-> b]

free_not_returned(c, b) ==
    [c EXCEPT !.ref_count = Block_free(c.ref_count, b)]

\* BlockAllocator.free
free(c, b) ==
    LET rc == Block_free(c.ref_count, b)
    IN  [c EXCEPT !.ref_count = rc,
                  !.free_blocks = IF is_free(rc, b) THEN Append(@, b) ELSE @]

num_free_blocks(c) == Len(c.free_blocks)

\* BlockAllocator.utilization is 1 - num_free_blocks / num_blocks; this is
\* its numerator over the denominator NumBlocks
utilization(c) == NumBlocks - num_free_blocks(c)

(***************************************************************************)
(* SequenceBlockTable                                                      *)
(***************************************************************************)
SequenceBlockTable == [block_ids |-> <<>>, num_tokens |-> 0]

needs_new_block(table) == table.num_tokens % BlockSize = 0

add_block_twice(table, b) == [table EXCEPT !.block_ids = Append(Append(@, b), b)]

add_block(table, b) == [table EXCEPT !.block_ids = Append(@, b)]

append_token(table) == [table EXCEPT !.num_tokens = @ + 1]

get_physical_location_slot0(table, pos) ==
    [block_idx |-> (pos \div BlockSize) + 1, offset |-> 0]

\* index into block_ids (1-based here) and offset of a logical position
get_physical_location(table, pos) ==
    [block_idx |-> (pos \div BlockSize) + 1, offset |-> pos % BlockSize]

(***************************************************************************)
(* PagedKVCache                                                            *)
(***************************************************************************)
Live(c) == DOMAIN c.sequences

PutLane(seqs, id, table) ==
    [s \in (DOMAIN seqs) \cup {id} |-> IF s = id THEN table ELSE seqs[s]]

DropLane(seqs, id) == [s \in (DOMAIN seqs) \ {id} |-> seqs[s]]

\* allocate_sequence: the entry is created before the first block is asked
\* for, and stays when the allocation fails
allocate_sequence(c) ==
    LET seq_id == c.next_seq_id
        c1 == [c EXCEPT !.next_seq_id = @ + 1,
                        !.sequences = PutLane(@, seq_id, SequenceBlockTable)]
        r == allocate(c1)
    IN  IF r.block_id = None
        THEN [c |-> r.c, seq_id |-> None, error |-> "RuntimeError"]
        ELSE [c |-> [r.c EXCEPT !.sequences[seq_id] = add_block(@, r.block_id)],
              seq_id |-> seq_id, error |-> "none"]

RECURSIVE FreeAll(_, _, _)
FreeAll(c, ids, i) ==
    IF i > Len(ids) THEN c ELSE FreeAll(free(c, ids[i]), ids, i + 1)

free_sequence_clear(c, seq_id) ==
    IF seq_id \notin Live(c)
    THEN c
    ELSE LET c1 == FreeAll(c, c.sequences[seq_id].block_ids, 1)
         IN  [c1 EXCEPT !.sequences = << >>]

free_sequence(c, seq_id) ==
    IF seq_id \notin Live(c)
    THEN c
    ELSE LET c1 == FreeAll(c, c.sequences[seq_id].block_ids, 1)
         IN  [c1 EXCEPT !.sequences = DropLane(@, seq_id)]

get_cached_length(c, seq_id) ==
    IF seq_id \in Live(c) THEN c.sequences[seq_id].num_tokens ELSE 0

\* k_token.to(k_storage.dtype): the cast to the cache's dtype (float16); the
\* numbers of a tensor stand for floats of which the even ones are
\* representable in the cache's dtype, the others are rounded to the one below
to_storage_dtype(x) == 2 * (x \div 2)
WriteToken_first_layer(st, b, offset, cache_tuples, pos) ==
    [st EXCEPT ![b][0][offset] = to_storage_dtype(cache_tuples[0][pos + 1])]

\* "k_storage[layer_idx, offset] = k_token.to(k_storage.dtype)" for every
\* layer: position pos (0-based) of cache_tuples goes to slot offset of block b
WriteToken(st, b, offset, cache_tuples, pos) ==
    [st EXCEPT ![b] = [l \in Layers |->
                          [@[l] EXCEPT ![offset] = to_storage_dtype(cache_tuples[l][pos + 1])]]]

\* store_hf_cache, the loop "for pos in range(start_pos, seq_len)" from pos on
RECURSIVE StoreFrom(_, _, _, _, _)
StoreFrom(c, seq_id, cache_tuples, pos, seq_len) ==
    IF pos >= seq_len
    THEN [c |-> c, error |-> "none"]
    ELSE LET table == c.sequences[seq_id]
             grow == needs_new_block(table) /\ table.num_tokens > 0
             r == IF grow THEN allocate(c) ELSE [c |-> c, block_id |-> None]
         IN  IF grow /\ r.block_id = None
             THEN [c |-> c, error |-> "RuntimeError"]
             ELSE LET c1 == IF grow
                            THEN [r.c EXCEPT !.sequences[seq_id] = add_block(@, r.block_id)]
                            ELSE c
                      t1 == c1.sequences[seq_id]
                      loc == get_physical_location(t1, t1.num_tokens)
                  IN  IF loc.block_idx > Len(t1.block_ids)
                      THEN [c |-> c1, error |-> "IndexError"]
                      ELSE StoreFrom(
                               [c1 EXCEPT !.storage = WriteToken(@, t1.block_ids[loc.block_idx],
                                                                 loc.offset, cache_tuples, pos),
                                          !.sequences[seq_id] = append_token(@)],
                               seq_id, cache_tuples, pos + 1, seq_len)

\* the sequence extent of past_key_values: cache_tuples[0][0].shape[2]
seq_extent(past_key_values) == Len(past_key_values[0])

store_hf_cache(c, seq_id, past_key_values, start_pos) ==
    IF seq_id \notin Live(c)
    THEN [c |-> c, error |-> "KeyError"]
    ELSE StoreFrom(c, seq_id, past_key_values, start_pos, seq_extent(past_key_values))

\* Python's seq[:n]
SliceTo(q, n) ==
    IF n >= 0 THEN SubSeq(q, 1, Min(n, Len(q))) ELSE SubSeq(q, 1, Max(Len(q) + n, 0))

\* the slots of block b in layer l, in slot order
BlockRow(c, b, l) == [o \in 1 .. BlockSize |-> c.storage[b][l][o - 1]]

\* get_hf_cache, "for block_idx, block_id in enumerate(table.block_ids)" from
\* block_idx (1-based here) on: the concatenation of the valid slots
RECURSIVE GatherFrom(_, _, _, _)
GatherFrom(c, table, l, block_idx) ==
    IF block_idx > Len(table.block_ids) THEN << >>
    ELSE LET start_token == (block_idx - 1) * BlockSize
             end_token == Min(start_token + BlockSize, table.num_tokens)
             num_tokens_in_block == end_token - start_token
         IN  SliceTo(BlockRow(c, table.block_ids[block_idx], l), num_tokens_in_block)
                \o GatherFrom(c, table, l, block_idx + 1)

\* get_hf_cache: None, or per layer the K/V entries of the lane in order
get_hf_cache(c, seq_id) ==
    IF seq_id \notin Live(c) \/ c.sequences[seq_id].num_tokens = 0
    THEN None
    ELSE [l \in Layers |-> GatherFrom(c, c.sequences[seq_id], l, 1)]

\* append_token_kv for one layer of the token at position num_tokens
append_token_kv(c, seq_id, layer_idx, k) ==
    IF seq_id \notin Live(c)
    THEN [c |-> c, error |-> "KeyError"]
    ELSE LET table == c.sequences[seq_id]
             grow == needs_new_block(table) /\ table.num_tokens > 0
             r == IF grow THEN allocate(c) ELSE [c |-> c, block_id |-> None]
         IN  IF grow /\ r.block_id = None
             THEN [c |-> c, error |-> "RuntimeError"]
             ELSE LET c1 == IF grow
                            THEN [r.c EXCEPT !.sequences[seq_id] = add_block(@, r.block_id)]
                            ELSE c
                      t1 == c1.sequences[seq_id]
                      loc == get_physical_location(t1, t1.num_tokens)
                  IN  IF loc.block_idx > Len(t1.block_ids)
                      THEN [c |-> c1, error |-> "IndexError"]
                      ELSE [c |-> [c1 EXCEPT
                                     !.storage[t1.block_ids[loc.block_idx]][layer_idx][loc.offset]
                                         = to_storage_dtype(k)],
                            error |-> "none"]

\* get_kv: None, or the K/V entries of the lane in one layer, block by block
get_kv(c, seq_id, layer_idx) ==
    IF c.sequences[seq_id].num_tokens = 0
    THEN None
    ELSE GatherFrom(c, c.sequences[seq_id], layer_idx, 1)

mark_token_complete(c, seq_id) == [c EXCEPT !.sequences[seq_id] = append_token(@)]

\* PagedKVCache.stats["num_sequences"]
num_sequences(c) == Cardinality(Live(c))

(***************************************************************************)
(* The block pool under its callers: lanes opened, filled and closed       *)
(* through PagedKVCache, and blocks taken and given back directly through  *)
(* BlockAllocator (as test_block_allocator does).                          *)
(***************************************************************************)
SetCache(c) ==
    /\ free_blocks' = c.free_blocks
    /\ ref_count' = c.ref_count
    /\ sequences' = c.sequences
    /\ next_seq_id' = c.next_seq_id
    /\ storage' = c.storage

CacheInit ==
    /\ free_blocks = [i \in 1 .. NumBlocks |-> i - 1]
    /\ ref_count = [b \in BlockIds |-> 0]
    /\ sequences = << >>
    /\ next_seq_id = 0
    /\ storage = [b \in BlockIds |-> [l \in Layers |-> [o \in Slots |-> 0]]]

AllocateSequence ==
    /\ next_seq_id < MaxSeqId
    /\ LET r == allocate_sequence(Cache)
       IN  /\ SetCache(r.c)
           /\ returned' = IF r.seq_id = None THEN returned ELSE returned \cup {r.seq_id}
           /\ last_error' = r.error
    /\ UNCHANGED <<held, freed, direct_calls, last_taken, ingested, notPool>>

FreeSequence(seq_id) ==
    /\ SetCache(free_sequence(Cache, seq_id))
    /\ freed' = freed \cup {seq_id}
    /\ last_error' = "none"
    /\ UNCHANGED <<held, returned, direct_calls, last_taken, ingested, notPool>>

\* the tensors a caller passes as the n new positions, one row per layer:
\* any values in the first layer, and in layer l the same values rotated by l
\* within 1 .. MaxValue, so that the rows of different layers differ
NewSlices(n) ==
    {[l \in Layers |-> [i \in 1 .. n |-> ((xs[i] + l - 1) % MaxValue) + 1]] :
        xs \in [1 .. n -> 1 .. MaxValue]}

\* a slice of n new positions whose entries are all zero
PlainSlice(n) == [l \in Layers |-> [i \in 1 .. n |-> 0]]

\* past_key_values of extent s + n: s positions the lane already holds (the
\* loop never reads them) followed by the new slice
WithPrior(s, new) == [l \in Layers |-> [i \in 1 .. s |-> 0] \o new[l]]

\* store_hf_cache(seq_id, past_key_values, start_pos = the lane's length)
\* with n new positions
StoreHfCache(seq_id, n) ==
    /\ seq_id \in Live(Cache)
    /\ LET start_pos == get_cached_length(Cache, seq_id)
           r == store_hf_cache(Cache, seq_id, WithPrior(start_pos, PlainSlice(n)), start_pos)
       IN  /\ SetCache(r.c)
           /\ last_error' = r.error
    /\ UNCHANGED <<held, returned, freed, direct_calls, last_taken, ingested, notPool>>

AppendTokenKv(seq_id) ==
    /\ seq_id \in Live(Cache)
    /\ LET r == append_token_kv(Cache, seq_id, 0, 0)
       IN  /\ SetCache(r.c)
           /\ last_error' = r.error
    /\ UNCHANGED <<held, returned, freed, direct_calls, last_taken, ingested, notPool>>

MarkTokenComplete(seq_id) ==
    /\ seq_id \in Live(Cache)
    /\ sequences[seq_id].num_tokens < MaxLaneTokens
    /\ SetCache(mark_token_complete(Cache, seq_id))
    /\ last_error' = "none"
    /\ UNCHANGED <<held, returned, freed, direct_calls, last_taken, ingested, notPool>>

\* the blocks some lane's table names
Range(q) == {q[i] : i \in 1 .. Len(q)}

LaneBlocks(c) == UNION {Range(c.sequences[s].block_ids) : s \in Live(c)}

AllocatorAllocate ==
    /\ direct_calls < MaxDirect
    /\ direct_calls' = direct_calls + 1
    /\ LET r == allocate(Cache)
       IN  /\ SetCache(r.c)
           /\ held' = IF r.block_id = None THEN held ELSE held \cup {r.block_id}
           /\ last_error' = IF r.block_id = None THEN "OOM" ELSE "none"
    /\ UNCHANGED <<returned, freed, ingested, last_taken, notPool>>

\* a direct caller gives back a block id: one it holds, one it gave back
\* before, or one it never got; never one a lane's table names
AllocatorFree(b) ==
    /\ b \notin LaneBlocks(Cache)
    /\ direct_calls < MaxDirect
    /\ direct_calls' = direct_calls + 1
    /\ SetCache(free(Cache, b))
    /\ held' = held \ {b}
    /\ last_error' = "none"
    /\ UNCHANGED <<returned, freed, ingested, last_taken, notPool>>

PoolNext ==
    \/ AllocateSequence
    \/ \E seq_id \in returned : FreeSequence(seq_id)
    \/ \E seq_id \in returned, n \in 1 .. MaxStore : StoreHfCache(seq_id, n)
    \/ \E seq_id \in returned : AppendTokenKv(seq_id)
    \/ \E seq_id \in returned : MarkTokenComplete(seq_id)
    \/ AllocatorAllocate
    \/ \E b \in BlockIds : AllocatorFree(b)

\* no decoder exists and no request runs
GenIdle ==
    /\ models = [draft |-> << >>, target |-> << >>]
    /\ engine = EngineOff /\ threads = << >>
    /\ decoder = [kind |-> "none"]
    /\ req = [pc |-> "idle"]
    /\ step = [pc |-> "idle"]

\* a fresh PagedKVCache, nothing allocated or freed yet by any caller
PoolInit ==
    /\ CacheInit
    /\ held = {}
    /\ returned = {}
    /\ freed = {}
    /\ direct_calls = 0 /\ last_taken = 0
    /\ last_error = "none"
    /\ ingested = << >>
    /\ GenIdle

CacheNext ==
    \/ AllocateSequence
    \/ \E seq_id \in returned : FreeSequence(seq_id)
    \/ \E seq_id \in returned, n \in 1 .. MaxStore : StoreHfCache(seq_id, n)
    \/ \E seq_id \in returned : AppendTokenKv(seq_id)
    \/ \E seq_id \in returned : MarkTokenComplete(seq_id)

(***************************************************************************)
(* Lanes used as a KV store: opened, filled by store_hf_cache with known   *)
(* tensors and closed, as test_hf_format_conversion does; ingested keeps   *)
(* what the caller passed, for comparison with what get_hf_cache returns.  *)
(***************************************************************************)
\* seq_id = cache.allocate_sequence()
OpenLane ==
    /\ LET r == allocate_sequence(Cache)
       IN  /\ SetCache(r.c)
           /\ returned' = IF r.seq_id = None THEN returned ELSE returned \cup {r.seq_id}
           /\ last_error' = r.error
           /\ ingested' = IF r.seq_id = None THEN ingested
                          ELSE PutLane(ingested, r.seq_id, [l \in Layers |-> << >>])
    /\ last_taken' = 0
    /\ UNCHANGED <<held, freed, direct_calls, notPool>>

\* cache.free_sequence(seq_id)
CloseLane(seq_id) ==
    /\ SetCache(free_sequence(Cache, seq_id))
    /\ freed' = freed \cup {seq_id}
    /\ last_error' = "none"
    /\ ingested' = IF seq_id \in DOMAIN ingested THEN DropLane(ingested, seq_id) ELSE ingested
    /\ last_taken' = 0
    /\ UNCHANGED <<held, returned, direct_calls, notPool>>

\* cache.store_hf_cache(seq_id, past_key_values, start_pos = the lane's
\* length) with the new positions "new"; the positions taken before an
\* exception are those the lane's length grew by
Ingest(seq_id, new) ==
    /\ seq_id \in Live(Cache)
    /\ LET start_pos == get_cached_length(Cache, seq_id)
           r == store_hf_cache(Cache, seq_id, WithPrior(start_pos, new), start_pos)
           taken == get_cached_length(r.c, seq_id) - start_pos
       IN  /\ SetCache(r.c)
           /\ last_error' = r.error
           /\ ingested' = [ingested EXCEPT ![seq_id] =
                              [l \in Layers |-> @[l] \o SubSeq(new[l], 1, taken)]]
           /\ last_taken' = taken
    /\ UNCHANGED <<held, returned, freed, direct_calls, notPool>>

StoreNext ==
    \/ next_seq_id < MaxSeqId /\ OpenLane
    \/ \E seq_id \in returned : CloseLane(seq_id)
    \/ \E seq_id \in returned, n \in 0 .. MaxStore :
          /\ get_cached_length(Cache, seq_id) + n <= MaxLaneTokens
          /\ \E new \in NewSlices(n) : Ingest(seq_id, new)

\* "for layer in range(num_layers): cache.append_token_kv(seq_id, layer, k, v)"
\* from layer layer_idx on; kv[l] is the entry passed for layer l
RECURSIVE AppendLayers(_, _, _, _)
AppendLayers(c, seq_id, kv, layer_idx) ==
    IF layer_idx >= NumLayers
    THEN [c |-> c, error |-> "none"]
    ELSE LET r == append_token_kv(c, seq_id, layer_idx, kv[layer_idx])
         IN  IF r.error # "none" THEN r
             ELSE AppendLayers(r.c, seq_id, kv, layer_idx + 1)

\* one token appended the manual way: append_token_kv once per layer, then
\* mark_token_complete; new is the token's slice (one position per layer)
AppendToken(seq_id, new) ==
    /\ seq_id \in Live(Cache)
    /\ LET r == AppendLayers(Cache, seq_id, [l \in Layers |-> new[l][1]], 0)
       IN  /\ SetCache(IF r.error = "none" THEN mark_token_complete(r.c, seq_id) ELSE r.c)
           /\ last_error' = r.error
           /\ ingested' = IF r.error = "none"
                          THEN [ingested EXCEPT ![seq_id] = [l \in Layers |-> @[l] \o new[l]]]
                          ELSE ingested
    /\ last_taken' = 0
    /\ UNCHANGED <<held, returned, freed, direct_calls, notPool>>

\* lanes filled token by token
AppendNext ==
    \/ next_seq_id < MaxSeqId /\ OpenLane
    \/ \E seq_id \in returned : CloseLane(seq_id)
    \/ \E seq_id \in returned :
          /\ get_cached_length(Cache, seq_id) < MaxLaneTokens
          /\ \E new \in NewSlices(1) : AppendToken(seq_id, new)

\* lanes opened until the pool is exhausted and beyond, and closed, with no
\* ingest
LanesNext ==
    \/ next_seq_id < NumBlocks + MaxRetry /\ OpenLane
    \/ \E seq_id \in returned : CloseLane(seq_id)

(***************************************************************************)
(* Tokens, distributions, models                                           *)
(***************************************************************************)
Tokens == 0 .. (VocabSize - 1)

eos_token_id == 0       \* tokenizer.eos_token_id, the stop token

RECURSIVE SumUpTo(_, _)
SumUpTo(f, n) == IF n < 0 THEN 0 ELSE f[n] + SumUpTo(f, n - 1)

Total(f) == SumUpTo(f, VocabSize - 1)

\* a probability vector: weight w[v] stands for the probability w[v] / Denom
Dists == {w \in [Tokens -> 0 .. Denom] : Total(w) = Denom}

\* torch.multinomial: the tokens a draw from the weights w can return
multinomial(w) == {v \in Tokens : w[v] > 0}

\* the temperatures a request can carry: 0, and 1 for any positive value (the
\* weights of a model are its probabilities at that positive temperature)
Temperatures == {0, 1}

\* logits.argmax(dim=-1): the first index of the largest logit, which is the
\* first index of the largest probability
argmax(w) == CHOOSE v \in Tokens :
                /\ \A x \in Tokens : w[x] <= w[v]
                /\ \A x \in Tokens : x < v => w[x] < w[v]

\* the float nan
nan == -2

\* F.softmax(logits / temperature): dividing by 0 gives inf, -inf or nan in
\* every place and the softmax of that is nan in every place
softmax(w, temperature) ==
    IF temperature = 0 THEN [v \in Tokens |-> nan] ELSE w

\* sample_token(logits, temperature): the tokens it can return
sample_token(w, temperature) ==
    IF temperature = 0 THEN {argmax(w)} ELSE multinomial(w)

\* compute_acceptance_probability, as the fraction num / den; with a nan
\* operand "q == 0" is false, p / q is nan and min(1.0, nan) is 1.0
compute_acceptance_probability(target_probs, draft_probs, sampled_token) ==
    LET pp == target_probs[sampled_token]
        qq == draft_probs[sampled_token]
    IN  IF qq = 0
        THEN [num |-> 0, den |-> 1]
        ELSE IF qq = nan \/ pp = nan
             THEN [num |-> 1, den |-> 1]
             ELSE [num |-> Min(qq, pp), den |-> qq]

\* torch.clamp(target_probs - draft_probs, min=0); multinomial normalises it
adjusted_probs(target_probs, draft_probs) ==
    [v \in Tokens |-> Max(target_probs[v] - draft_probs[v], 0)]

(***************************************************************************)
(* CachedModelWrapper                                                      *)
(***************************************************************************)
\* get_hf_cache returns None for an unknown lane and for an empty one
has_hf_cache(c, seq_id) ==
    seq_id \in Live(c) /\ c.sequences[seq_id].num_tokens > 0

CachedModelWrapper_call_unsliced(c, seq_id, input_len) ==
    LET past == has_hf_cache(c, seq_id)
        cached_len == IF past THEN get_cached_length(c, seq_id) ELSE 0
        new_len == input_len
        r == store_hf_cache(c, seq_id, WithPrior(cached_len, PlainSlice(new_len)),
                            cached_len)
    IN  [c |-> r.c, error |-> r.error, logits_seq_len |-> new_len,
         past_key_values |-> IF past THEN get_hf_cache(c, seq_id) ELSE None]

\* __call__ with an input of input_len tokens on lane seq_id: the model gets
\* the uncached suffix (or the whole input) and past_key_values, returns one
\* logits row per token it was given and a KV of cached_len + that many
\* positions, which is stored from start_pos = cached_len
CachedModelWrapper_call(c, seq_id, input_len) ==
    LET past == has_hf_cache(c, seq_id)
        cached_len == IF past THEN get_cached_length(c, seq_id) ELSE 0
        new_len == IF past /\ cached_len > 0 /\ input_len > cached_len
                   THEN input_len - cached_len
                   ELSE input_len
        r == store_hf_cache(c, seq_id, WithPrior(cached_len, PlainSlice(new_len)),
                            cached_len)
    IN  [c |-> r.c, error |-> r.error, logits_seq_len |-> new_len,
         past_key_values |-> IF past THEN get_hf_cache(c, seq_id) ELSE None]

\* wrapped(input_ids, seq_id = seq_id) with an input of input_len tokens
WrapperCall(seq_id, input_len) ==
    /\ seq_id \in Live(Cache)
    /\ LET r == CachedModelWrapper_call(Cache, seq_id, input_len)
       IN  /\ SetCache(r.c)
           /\ last_error' = r.error
    /\ UNCHANGED <<held, returned, freed, direct_calls, last_taken, ingested, notPool>>

\* the wrapper under a direct caller, as test_cached_model_wrapper uses it:
\* start_sequence, calls with inputs of any length, end_sequence
WrapperNext ==
    \/ AllocateSequence
    \/ \E seq_id \in returned : FreeSequence(seq_id)
    \/ \E seq_id \in returned, input_len \in 1 .. MaxLaneTokens : WrapperCall(seq_id, input_len)

(***************************************************************************)
(* speculative_decode_step                                                 *)
(***************************************************************************)
StepIdle == [pc |-> "idle"]

StepStart(K, temperature, input_len, draft_seq_id, target_seq_id) ==
    [pc |-> "draft", K |-> K, temperature |-> temperature, original_len |-> input_len,
     draft_seq_id |-> draft_seq_id, target_seq_id |-> target_seq_id,
     draft_tokens |-> << >>, logits_seq_len |-> 0,
     accepted_tokens |-> << >>, num_accepted |-> 0, i |-> 0, log |-> << >>]

full_seq_len(st) == st.original_len + Len(st.draft_tokens)

logits_start_pos(st) == full_seq_len(st) - st.logits_seq_len

logit_idx(st, i) == (st.original_len - 1 + i) - logits_start_pos(st)

out_of_range_upper(st, i) == logit_idx(st, i) >= st.logits_seq_len

\* the safety check of the acceptance loop
out_of_range(st, i) == logit_idx(st, i) < 0 \/ logit_idx(st, i) >= st.logits_seq_len

\* isinstance(draft_model, CachedModelWrapper) and draft_seq_id is not None
draft_uses_cache(st) == decoder.use_cache /\ st.draft_seq_id # None

target_uses_cache(st) == decoder.use_cache /\ st.target_seq_id # None

\* torch.rand(1).item() < accept_prob, for u = un / UDen
rand_below(un, accept_prob) == un * accept_prob.den < accept_prob.num * UDen

(***************************************************************************)
(* SpeculativeDecoder.generate / AdaptiveSpeculativeDecoder.generate       *)
(***************************************************************************)
alpha == [n |-> 3, d |-> 10]                    \* self.alpha = 0.3
target_acceptance_rate == [n |-> 6, d |-> 10]   \* target_acceptance_rate = 0.6

\* the decoder object after __init__
NewDecoder(kind, use_cache, initial_depth, temperature) ==
    [kind |-> kind, use_cache |-> use_cache, temperature |-> temperature,
     speculation_depth |-> initial_depth, current_depth |-> initial_depth,
     min_depth |-> 1, max_depth |-> MaxK,
     ema_acceptance_rate |-> [n |-> 1, d |-> 2],
     draft_seq_id |-> None, target_seq_id |-> None,
     draft_active |-> {}, target_active |-> {}]

\* load(): the AdaptiveSpeculativeDecoder the engine keeps for all requests
LoadedDecoder == NewDecoder("adaptive", TRUE, MaxK, 1)

\* the prompts a caller passes: empty, whitespace only, text
Prompts == {"", " ", "text"}

\* the locals of a generate / generate_stream call at its entry
NewRequest(entry, prompt, max_tokens, input_len, speculation_depth, temperature, use_speculative) ==
    [entry |-> entry, pc |-> "idle", prompt |-> prompt, max_tokens |-> max_tokens,
     speculation_depth |-> speculation_depth, temperature |-> temperature,
     use_speculative |-> use_speculative,
     input_len |-> input_len, generated_tokens |-> << >>,
     exc |-> "none", outcome |-> "none", new_tokens |-> << >>, opened |-> {},
     seq_id |-> None, token_index |-> 0, j |-> 0, events |-> << >>,
     produced |-> << >>,
     engine |-> FALSE, prompt_len |-> input_len, attempt |-> 0, served |-> 0]

GenInit ==
    /\ CacheInit
    /\ held = {} /\ returned = {} /\ freed = {} /\ direct_calls = 0 /\ last_taken = 0
    /\ last_error = "none"
    /\ ingested = << >>
    /\ \E q \in Dists, p \in Dists : models = [draft |-> q, target |-> p]
    /\ engine = EngineOff /\ threads = << >>
    /\ \/ /\ \E kind \in {"spec", "adaptive"}, use_cache \in BOOLEAN, K \in 1 .. MaxK,
                temperature \in Temperatures :
                  decoder = NewDecoder(kind, use_cache, K, temperature)
          /\ \E mt \in 1 .. MaxTokens, plen \in 1 .. MaxPrompt :
                  req = NewRequest("generate", "text", mt, plen,
                                   decoder.speculation_depth, decoder.temperature, TRUE)
       \/ /\ \E use_cache \in BOOLEAN : decoder = NewDecoder("adaptive", use_cache, MaxK, 1)
          /\ \/ \E mt \in 0 .. MaxTokens, plen \in 1 .. MaxPrompt, K \in 1 .. MaxK,
                    temperature \in Temperatures, use_speculative \in BOOLEAN :
                    req = NewRequest("stream", "text", mt, plen, K, temperature,
                                     use_speculative)
             \/ \E prompt \in Prompts, mt \in {-1, 1} :
                    /\ prompt # "text" \/ mt = -1
                    /\ req = NewRequest("stream", prompt, mt, 1, 1, 1, TRUE)
    /\ step = StepIdle

\* where a decoder's generate leaves to: its caller, or HelixEngine.generate
ExitPc == IF req.engine THEN "after_safe" ELSE "done"

\* a lane another request holds when this one arrives
OtherOpen ==
    /\ req.pc = "idle"
    /\ next_seq_id < MaxSeqId
    /\ LET r == allocate_sequence(Cache)
       IN  /\ SetCache(r.c)
           /\ returned' = IF r.seq_id = None THEN returned ELSE returned \cup {r.seq_id}
           /\ last_error' = r.error
    /\ UNCHANGED <<held, freed, direct_calls, last_taken, ingested, genVars>>

\* entry of generate up to the first start_sequence
Begin ==
    /\ req.pc = "idle" /\ req.entry = "generate"
    /\ req' = [req EXCEPT !.pc = IF decoder.use_cache THEN "start_draft" ELSE "loop"]
    /\ UNCHANGED <<cacheVars, envVars, models, engine, threads, decoder, step>>

\* self.draft_seq_id = self.draft_model.start_sequence()
StartDraft ==
    /\ req.pc = "start_draft"
    /\ LET r == allocate_sequence(Cache)
       IN  /\ SetCache(r.c)
           /\ last_error' = r.error
           /\ IF r.seq_id = None
              THEN /\ req' = [req EXCEPT !.pc = ExitPc, !.exc = r.error, !.outcome = "raised"]
                   /\ UNCHANGED decoder
              ELSE /\ req' = [req EXCEPT !.pc = "start_target", !.opened = @ \cup {r.seq_id}]
                   /\ decoder' = [decoder EXCEPT !.draft_seq_id = r.seq_id,
                                                 !.draft_active = @ \cup {r.seq_id}]
    /\ UNCHANGED <<held, returned, freed, direct_calls, last_taken, ingested, models, engine, threads, step>>

\* self.target_seq_id = self.target_model.start_sequence(); it is outside the
\* try block, so an exception leaves generate without the finally clause
StartTarget ==
    /\ req.pc = "start_target"
    /\ LET r == allocate_sequence(Cache)
       IN  /\ SetCache(r.c)
           /\ last_error' = r.error
           /\ IF r.seq_id = None
              THEN /\ req' = [req EXCEPT !.pc = ExitPc, !.exc = r.error, !.outcome = "raised"]
                   /\ UNCHANGED decoder
              ELSE /\ req' = [req EXCEPT !.pc = "loop", !.opened = @ \cup {r.seq_id}]
                   /\ decoder' = [decoder EXCEPT !.target_seq_id = r.seq_id,
                                                 !.target_active = @ \cup {r.seq_id}]
    /\ UNCHANGED <<held, returned, freed, direct_calls, last_taken, ingested, models, engine, threads, step>>

\* the depth the next step is run with
StepDepth == IF decoder.kind = "adaptive" THEN decoder.current_depth
             ELSE decoder.speculation_depth

\* while len(generated_tokens) < max_tokens: enter speculative_decode_step
LoopTest ==
    /\ req.pc = "loop" /\ req.entry = "generate"
    /\ IF Len(req.generated_tokens) < req.max_tokens
       THEN /\ req' = [req EXCEPT !.pc = "step"]
            /\ step' = StepStart(StepDepth, decoder.temperature, req.input_len,
                                 IF decoder.use_cache THEN decoder.draft_seq_id ELSE None,
                                 IF decoder.use_cache THEN decoder.target_seq_id ELSE None)
       ELSE /\ req' = [req EXCEPT !.pc = "finally"]
            /\ UNCHANGED step
    /\ UNCHANGED <<cacheVars, envVars, models, engine, threads, decoder>>

\* an exception leaves the step and the while loop for the finally clause
Raise(e) ==
    /\ req' = [req EXCEPT !.pc = "finally", !.exc = e]
    /\ step' = [step EXCEPT !.pc = "raised"]

\* PHASE 1, one iteration: the draft model on current_ids, one token sampled
DraftCall ==
    /\ req.pc = "step" /\ step.pc = "draft"
    /\ Len(step.draft_tokens) < step.K
    /\ \E fail \in BOOLEAN :
          IF fail
          THEN Raise("ModelError") /\ UNCHANGED <<cacheVars, last_error>>
          ELSE LET r == IF draft_uses_cache(step)
                        THEN CachedModelWrapper_call(Cache, step.draft_seq_id,
                                                     full_seq_len(step))
                        ELSE [c |-> Cache, error |-> "none",
                              logits_seq_len |-> full_seq_len(step)]
               IN  /\ SetCache(r.c)
                   /\ last_error' = r.error
                   /\ IF r.error # "none"
                      THEN Raise(r.error)
                      ELSE /\ \E token \in sample_token(models.draft, step.temperature) :
                                 step' = [step EXCEPT !.draft_tokens = Append(@, token)]
                           /\ UNCHANGED req
    /\ UNCHANGED <<held, returned, freed, direct_calls, last_taken, ingested, models, engine, threads, decoder>>

\* PHASE 2: the target model on input_ids + draft_tokens
VerifyCall ==
    /\ req.pc = "step" /\ step.pc = "draft"
    /\ Len(step.draft_tokens) = step.K
    /\ \E fail \in BOOLEAN :
          IF fail
          THEN Raise("ModelError") /\ UNCHANGED <<cacheVars, last_error>>
          ELSE LET r == IF target_uses_cache(step)
                        THEN CachedModelWrapper_call(Cache, step.target_seq_id,
                                                     full_seq_len(step))
                        ELSE [c |-> Cache, error |-> "none",
                              logits_seq_len |-> full_seq_len(step)]
               IN  /\ SetCache(r.c)
                   /\ last_error' = r.error
                   /\ IF r.error # "none"
                      THEN Raise(r.error)
                      ELSE /\ step' = [step EXCEPT !.pc = "accept",
                                                   !.logits_seq_len = r.logits_seq_len]
                           /\ UNCHANGED req
    /\ UNCHANGED <<held, returned, freed, direct_calls, last_taken, ingested, models, engine, threads, decoder>>

\* what the acceptance loop did with draft token i
LogEntry(i, tested, un, accepted, token) ==
    [i |-> i, tested |-> tested, un |-> un, accepted |-> accepted, token |-> token]

\* PHASE 3, one iteration of the acceptance loop
AcceptToken ==
    /\ req.pc = "step" /\ step.pc = "accept"
    /\ step.i < step.K
    /\ LET i == step.i
           draft_token == step.draft_tokens[i + 1]
       IN  IF out_of_range(step, i)
           THEN step' = [step EXCEPT !.accepted_tokens = Append(@, draft_token),
                                     !.num_accepted = @ + 1,
                                     !.i = i + 1,
                                     !.log = Append(@, LogEntry(i, FALSE, 0, TRUE, draft_token))]
           ELSE \E un \in 0 .. (UDen - 1) :
                  LET target_probs == softmax(models.target, step.temperature)
                      draft_probs == softmax(models.draft, step.temperature)
                      accept_prob == compute_acceptance_probability(
                                         target_probs, draft_probs, draft_token)
                  IN  IF rand_below(un, accept_prob)
                      THEN step' = [step EXCEPT
                                      !.accepted_tokens = Append(@, draft_token),
                                      !.num_accepted = @ + 1,
                                      !.i = i + 1,
                                      !.log = Append(@, LogEntry(i, TRUE, un, TRUE, draft_token))]
                      ELSE \E resampled_token \in
                                multinomial(adjusted_probs(target_probs, draft_probs)) :
                             step' = [step EXCEPT
                                        !.accepted_tokens = Append(@, resampled_token),
                                        !.pc = "bonus",
                                        !.log = Append(@, LogEntry(i, TRUE, un, FALSE,
                                                                   resampled_token))]
    /\ UNCHANGED <<cacheVars, envVars, models, engine, threads, decoder, req>>

\* the loop ran over all K draft tokens without a break
AcceptEnd ==
    /\ req.pc = "step" /\ step.pc = "accept"
    /\ step.i = step.K
    /\ step' = [step EXCEPT !.pc = "bonus"]
    /\ UNCHANGED <<cacheVars, envVars, models, engine, threads, decoder, req>>

always_bonus(st) == TRUE

some_accepted(st) == st.num_accepted > 0

\* "if num_accepted == speculation_depth"
all_accepted(st) == st.num_accepted = st.K

\* PHASE 4 and the return of the SpeculativeOutput
StepReturn ==
    /\ req.pc = "step" /\ step.pc = "bonus"
    /\ IF all_accepted(step)
       THEN \E bonus_token \in sample_token(models.target, step.temperature) :
               step' = [step EXCEPT !.accepted_tokens = Append(@, bonus_token),
                                    !.pc = "returned"]
       ELSE step' = [step EXCEPT !.pc = "returned"]
    /\ req' = [req EXCEPT !.pc = "collect", !.new_tokens = step'.accepted_tokens, !.j = 0,
                          !.produced = @ \o step'.accepted_tokens]
    /\ UNCHANGED <<cacheVars, envVars, models, engine, threads, decoder>>

acceptance_rate_of_generated(st) ==
    [n |-> st.num_accepted, d |-> Len(st.accepted_tokens)]

\* SpeculativeOutput.acceptance_rate
acceptance_rate(st) == [n |-> st.num_accepted, d |-> st.K]

\* SpeculativeDecoder.generate: "for token in new_tokens" from index i on
RECURSIVE AddTokens(_, _, _, _)
AddTokens(generated_tokens, new_tokens, i, max_tokens) ==
    IF i > Len(new_tokens) THEN generated_tokens
    ELSE IF new_tokens[i] = eos_token_id THEN generated_tokens
    ELSE LET g == Append(generated_tokens, new_tokens[i])
         IN  IF Len(g) >= max_tokens THEN g
             ELSE AddTokens(g, new_tokens, i + 1, max_tokens)

Contains(q, x) == \E i \in 1 .. Len(q) : q[i] = x

\* new_tokens.index(x)
IndexOf(q, x) == CHOOSE i \in 1 .. Len(q) : q[i] = x /\ \A j \in 1 .. (i - 1) : q[j] # x

\* the rest of the loop body of SpeculativeDecoder.generate
CollectSpec ==
    /\ req.pc = "collect" /\ req.entry = "generate" /\ decoder.kind = "spec"
    /\ LET new_tokens == step.accepted_tokens
           g == AddTokens(req.generated_tokens, new_tokens, 1, req.max_tokens)
       IN  IF Contains(new_tokens, eos_token_id)
           THEN req' = [req EXCEPT !.generated_tokens = g, !.pc = "finally"]
           ELSE req' = [req EXCEPT !.generated_tokens = g,
                                   !.input_len = @ + Len(new_tokens),
                                   !.pc = "loop"]
    /\ UNCHANGED <<cacheVars, envVars, models, engine, threads, decoder, step>>

\* ema := alpha * rate + (1 - alpha) * ema
ema_update_no_rate(ema, rate) ==
    [n |-> (alpha.d - alpha.n) * ema.n * rate.d,
     d |-> alpha.d * rate.d * ema.d]

ema_update(ema, rate) ==
    [n |-> alpha.n * rate.n * ema.d + (alpha.d - alpha.n) * ema.n * rate.d,
     d |-> alpha.d * rate.d * ema.d]

adjust_depth_unclamped(d, ema) ==
    IF ema.n * 10 * target_acceptance_rate.d
          > (10 * target_acceptance_rate.n + target_acceptance_rate.d) * ema.d
    THEN d.current_depth + 1
    ELSE IF ema.n * 10 * target_acceptance_rate.d
               < (10 * target_acceptance_rate.n - target_acceptance_rate.d) * ema.d
         THEN d.current_depth - 1
         ELSE d.current_depth

\* the "Adjust K" statement; 0.1 is 1/10
adjust_depth(d, ema) ==
    IF ema.n * 10 * target_acceptance_rate.d
          > (10 * target_acceptance_rate.n + target_acceptance_rate.d) * ema.d
    THEN Min(d.max_depth, d.current_depth + 1)
    ELSE IF ema.n * 10 * target_acceptance_rate.d
               < (10 * target_acceptance_rate.n - target_acceptance_rate.d) * ema.d
         THEN Max(d.min_depth, d.current_depth - 1)
         ELSE d.current_depth

\* an adaptive decoder built with the given depths, and a constant
\* acceptance rate (0 or 1) about to be fed to its "ADAPTIVE LOGIC"
ControllerInit ==
    /\ CacheInit
    /\ held = {} /\ returned = {} /\ freed = {} /\ direct_calls = 0 /\ last_taken = 0
    /\ last_error = "none"
    /\ ingested = << >>
    /\ models = [draft |-> << >>, target |-> << >>]
    /\ engine = EngineOff /\ threads = << >>
    /\ \E min_depth \in 1 .. MaxDepth, max_depth \in 1 .. MaxDepth,
          initial_depth \in 1 .. MaxDepth, rate \in {0, 1} :
          /\ min_depth <= initial_depth /\ initial_depth <= max_depth
          /\ decoder = [NewDecoder("adaptive", FALSE, initial_depth, 1)
                           EXCEPT !.min_depth = min_depth, !.max_depth = max_depth]
          /\ req = [pc |-> "feed", rate |-> [n |-> rate, d |-> 1], steps |-> 0]
    /\ step = StepIdle

\* the "ADAPTIVE LOGIC" of one loop iteration, result.acceptance_rate = req.rate
Feed ==
    /\ req.pc = "feed"
    /\ req.steps < MaxFeed
    /\ LET ema == ema_update(decoder.ema_acceptance_rate, req.rate)
       IN  decoder' = [decoder EXCEPT !.ema_acceptance_rate = ema,
                                      !.current_depth = adjust_depth(decoder, ema)]
    /\ req' = [req EXCEPT !.steps = @ + 1]
    /\ UNCHANGED <<cacheVars, envVars, models, engine, threads, step>>

tokens_through_stop(new_tokens) ==
    SubSeq(new_tokens, 1, IndexOf(new_tokens, eos_token_id))

\* new_tokens[:stop_idx] with stop_idx = new_tokens.index(stop_token_id)
tokens_before_stop(new_tokens) ==
    SubSeq(new_tokens, 1, IndexOf(new_tokens, eos_token_id) - 1)

\* the rest of the loop body of AdaptiveSpeculativeDecoder.generate
CollectAdaptive ==
    /\ req.pc = "collect" /\ req.entry = "generate" /\ decoder.kind = "adaptive"
    /\ LET new_tokens == step.accepted_tokens
           ema == ema_update(decoder.ema_acceptance_rate, acceptance_rate(step))
       IN  /\ decoder' = [decoder EXCEPT !.ema_acceptance_rate = ema,
                                         !.current_depth = adjust_depth(decoder, ema)]
           /\ IF Contains(new_tokens, eos_token_id)
              THEN req' = [req EXCEPT
                             !.generated_tokens =
                                 @ \o tokens_before_stop(new_tokens),
                             !.pc = "finally"]
              ELSE LET g == req.generated_tokens \o new_tokens
                   IN  IF Len(g) >= req.max_tokens
                       THEN req' = [req EXCEPT !.generated_tokens = g,
                                                                 !.pc = "finally"]
                       ELSE req' = [req EXCEPT !.generated_tokens = g,
                                                                 !.input_len = @ + Len(new_tokens),
                                               !.pc = "loop"]
    /\ UNCHANGED <<cacheVars, envVars, models, engine, threads, step>>

\* CachedModelWrapper.end_sequence
end_sequence(c, active, seq_id) ==
    IF seq_id \in active THEN free_sequence(c, seq_id) ELSE c

\* the finally clause, then the return or the re-raise
Finally ==
    /\ req.pc = "finally" /\ req.entry = "generate"
    /\ IF decoder.use_cache
       THEN LET c1 == IF decoder.draft_seq_id # None
                      THEN end_sequence(Cache, decoder.draft_active, decoder.draft_seq_id)
                      ELSE Cache
                c2 == IF decoder.target_seq_id # None
                      THEN end_sequence(c1, decoder.target_active, decoder.target_seq_id)
                      ELSE c1
            IN  /\ SetCache(c2)
                /\ decoder' = [decoder EXCEPT
                                 !.draft_active = @ \ {decoder.draft_seq_id},
                                 !.target_active = @ \ {decoder.target_seq_id},
                                 !.draft_seq_id = None,
                                 !.target_seq_id = None]
       ELSE UNCHANGED <<cacheVars, decoder>>
    /\ req' = [req EXCEPT !.pc = ExitPc,
                          !.outcome = IF req.exc = "none" THEN "returned" ELSE "raised"]
    /\ UNCHANGED <<envVars, models, engine, threads, step>>

(***************************************************************************)
(* Several generate calls at the same time on one decoder                  *)
(***************************************************************************)
Callers == 1 .. NumCallers

\* one decoder with a paged cache; every caller is at the entry of generate
SharedInit ==
    /\ CacheInit
    /\ held = {} /\ returned = {} /\ freed = {} /\ direct_calls = 0 /\ last_taken = 0
    /\ last_error = "none"
    /\ ingested = << >>
    /\ \E q \in Dists, p \in Dists : models = [draft |-> q, target |-> p]
    /\ engine = [EngineOff EXCEPT !.is_loaded = TRUE]
    /\ threads = [t \in Callers |->
                    [pc |-> "start_draft", opened |-> {}, used |-> {}, closed |-> {},
                     through |-> FALSE]]
    /\ decoder = LoadedDecoder
    /\ req = [pc |-> "shared"]
    /\ step = StepIdle

\* caller t: self.draft_seq_id = self.draft_model.start_sequence()
TStartDraft(t) ==
    /\ threads[t].pc = "start_draft"
    /\ LET r == allocate_sequence(Cache)
       IN  /\ SetCache(r.c)
           /\ last_error' = r.error
           /\ IF r.seq_id = None
              THEN /\ threads' = [threads EXCEPT ![t].pc = "done"]
                   /\ UNCHANGED decoder
              ELSE /\ threads' = [threads EXCEPT ![t].pc = "start_target",
                                                 ![t].opened = @ \cup {r.seq_id}]
                   /\ decoder' = [decoder EXCEPT !.draft_seq_id = r.seq_id,
                                                 !.draft_active = @ \cup {r.seq_id}]
    /\ UNCHANGED <<held, returned, freed, direct_calls, last_taken, ingested, models, engine,
                   req, step>>

\* caller t: self.target_seq_id = self.target_model.start_sequence()
TStartTarget(t) ==
    /\ threads[t].pc = "start_target"
    /\ LET r == allocate_sequence(Cache)
       IN  /\ SetCache(r.c)
           /\ last_error' = r.error
           /\ IF r.seq_id = None
              THEN /\ threads' = [threads EXCEPT ![t].pc = "done"]
                   /\ UNCHANGED decoder
              ELSE /\ threads' = [threads EXCEPT ![t].pc = "loop",
                                                 ![t].opened = @ \cup {r.seq_id}]
                   /\ decoder' = [decoder EXCEPT !.target_seq_id = r.seq_id,
                                                 !.target_active = @ \cup {r.seq_id}]
    /\ UNCHANGED <<held, returned, freed, direct_calls, last_taken, ingested, models, engine,
                   req, step>>

\* the wrapper called with one token more than the lane holds, on the lane
\* the decoder's field names at this moment (no lane: no cache call)
CallOn(c, seq_id) ==
    IF seq_id = None THEN [c |-> c, error |-> "none"]
    ELSE IF seq_id \notin Live(c) THEN [c |-> c, error |-> "KeyError"]
    ELSE LET r == CachedModelWrapper_call(c, seq_id, get_cached_length(c, seq_id) + 1)
         IN  [c |-> r.c, error |-> r.error]

\* caller t: one iteration of the while loop, speculative_decode_step with
\* draft_seq_id = self.draft_seq_id and target_seq_id = self.target_seq_id;
\* the loop goes on, ends, or an exception leaves it
TStep(t) ==
    /\ threads[t].pc = "loop"
    /\ LET r1 == CallOn(Cache, decoder.draft_seq_id)
           r2 == IF r1.error = "none" THEN CallOn(r1.c, decoder.target_seq_id) ELSE r1
           lanes == {decoder.draft_seq_id, decoder.target_seq_id} \ {None}
       IN  /\ SetCache(r2.c)
           /\ last_error' = r2.error
           /\ \E more \in BOOLEAN :
                 threads' = [threads EXCEPT
                               ![t].used = @ \cup lanes,
                               ![t].pc = IF r2.error = "none" /\ more
                                            /\ \A s \in lanes \cap Live(r2.c) :
                                                  get_cached_length(r2.c, s) < MaxLaneTokens
                                         THEN "loop" ELSE "finally"]
    /\ UNCHANGED <<held, returned, freed, direct_calls, last_taken, ingested, models, engine,
                   decoder, req, step>>

\* caller t: the finally clause
TFinally(t) ==
    /\ threads[t].pc = "finally"
    /\ LET c1 == IF decoder.draft_seq_id # None
                 THEN end_sequence(Cache, decoder.draft_active, decoder.draft_seq_id)
                 ELSE Cache
           c2 == IF decoder.target_seq_id # None
                 THEN end_sequence(c1, decoder.target_active, decoder.target_seq_id)
                 ELSE c1
       IN  /\ SetCache(c2)
           /\ decoder' = [decoder EXCEPT
                            !.draft_active = @ \ {decoder.draft_seq_id},
                            !.target_active = @ \ {decoder.target_seq_id},
                            !.draft_seq_id = None,
                            !.target_seq_id = None]
           /\ threads' = [threads EXCEPT
                            ![t].pc = "done", ![t].through = TRUE,
                            ![t].closed = @ \cup ({decoder.draft_seq_id, decoder.target_seq_id}
                                                     \ {None})]
    /\ UNCHANGED <<envVars, models, engine, req, step>>

SharedNext ==
    \E t \in Callers :
        \/ TStartDraft(t)
        \/ TStartTarget(t)
        \/ TStep(t)
        \/ TFinally(t)

(***************************************************************************)
(* BlockAllocator.allocate / free called from several threads; no lock is  *)
(* taken, so a thread can be preempted between two statements              *)
(***************************************************************************)
\* a fresh allocator; every thread is outside any call
ThreadsInit ==
    /\ CacheInit
    /\ held = {} /\ returned = {} /\ freed = {} /\ direct_calls = 0 /\ last_taken = 0
    /\ last_error = "none"
    /\ ingested = << >>
    /\ models = [draft |-> << >>, target |-> << >>]
    /\ engine = EngineOff
    /\ threads = [t \in Callers |->
                    [pc |-> "idle", block_id |-> None, result |-> "none", held |-> {}]]
    /\ decoder = [kind |-> "none"]
    /\ req = [pc |-> "threads"]
    /\ step = StepIdle

\* thread t enters allocate(): "if not self.free_blocks: return None"
TAllocateTest(t) ==
    /\ threads[t].pc = "idle"
    /\ direct_calls < MaxThreadCalls
    /\ direct_calls' = direct_calls + 1
    /\ threads' = IF free_blocks = << >>
                  THEN [threads EXCEPT ![t].result = "None"]
                  ELSE [threads EXCEPT ![t].pc = "pop", ![t].result = "none"]
    /\ UNCHANGED <<cacheVars, held, returned, freed, last_error, ingested, last_taken,
                   models, engine, decoder, req, step>>

\* "block_id = self.free_blocks.pop()": IndexError on an empty list
TAllocatePop(t) ==
    /\ threads[t].pc = "pop"
    /\ IF free_blocks = << >>
       THEN /\ threads' = [threads EXCEPT ![t].pc = "idle", ![t].result = "IndexError"]
            /\ UNCHANGED free_blocks
       ELSE /\ threads' = [threads EXCEPT ![t].pc = "ref",
                                          ![t].block_id = free_blocks[Len(free_blocks)]]
            /\ free_blocks' = SubSeq(free_blocks, 1, Len(free_blocks) - 1)
    /\ UNCHANGED <<ref_count, sequences, next_seq_id, storage, envVars,
                   models, engine, decoder, req, step>>

\* "self.blocks[block_id].allocate(); return block_id"
TAllocateRef(t) ==
    /\ threads[t].pc = "ref"
    /\ ref_count' = Block_allocate(ref_count, threads[t].block_id)
    /\ threads' = [threads EXCEPT ![t].pc = "idle", ![t].result = "block",
                                  ![t].held = @ \cup {threads[t].block_id}]
    /\ UNCHANGED <<free_blocks, sequences, next_seq_id, storage, envVars,
                   models, engine, decoder, req, step>>

\* thread t enters free(block_id) for a block it holds: "block.free()"
TFreeRef(t, b) ==
    /\ threads[t].pc = "idle"
    /\ b \in threads[t].held
    /\ direct_calls < MaxThreadCalls
    /\ direct_calls' = direct_calls + 1
    /\ ref_count' = Block_free(ref_count, b)
    /\ threads' = [threads EXCEPT ![t].pc = "push", ![t].block_id = b,
                                  ![t].result = "none", ![t].held = @ \ {b}]
    /\ UNCHANGED <<free_blocks, sequences, next_seq_id, storage, held, returned, freed,
                   last_error, ingested, last_taken, models, engine, decoder, req, step>>

\* "if block.is_free(): self.free_blocks.append(block_id)"
TFreePush(t) ==
    /\ threads[t].pc = "push"
    /\ free_blocks' = IF is_free(ref_count, threads[t].block_id)
                      THEN Append(free_blocks, threads[t].block_id)
                      ELSE free_blocks
    /\ threads' = [threads EXCEPT ![t].pc = "idle"]
    /\ UNCHANGED <<ref_count, sequences, next_seq_id, storage, envVars,
                   models, engine, decoder, req, step>>

ThreadsNext ==
    \E t \in Callers :
        \/ TAllocateTest(t)
        \/ TAllocatePop(t)
        \/ TAllocateRef(t)
        \/ \E b \in BlockIds : TFreeRef(t, b)
        \/ TFreePush(t)

(***************************************************************************)
(* HelixEngine.generate                                                    *)
(***************************************************************************)
\* "not prompt or not prompt.strip()"
prompt_blank(prompt) == prompt = "" \/ prompt = " "

\* "config.max_tokens and config.max_tokens < 1": 0 is falsy
generate_max_tokens_invalid(max_tokens) == max_tokens # 0 /\ max_tokens < 1

\* "config.temperature < 0.0"
temperature_invalid(temperature) == temperature < 0

\* a fresh engine: nothing loaded, no decoder yet, no request made
EngineInit ==
    /\ CacheInit
    /\ held = {} /\ returned = {} /\ freed = {} /\ direct_calls = 0 /\ last_taken = 0
    /\ last_error = "none"
    /\ ingested = << >>
    /\ \E q \in Dists, p \in Dists : models = [draft |-> q, target |-> p]
    /\ engine = EngineOff /\ threads = << >>
    /\ decoder = [kind |-> "none"]
    /\ req = [pc |-> "none", served |-> 0]
    /\ step = StepIdle

\* a caller invokes generate(prompt, config); the input validation
EngineGenerate ==
    /\ req.pc \in {"none", "done"}
    /\ req.served < MaxRequests
    /\ \E prompt \in Prompts, max_tokens \in -1 .. MaxTokens,
          temperature \in {-1} \cup Temperatures, K \in 1 .. MaxK, plen \in 1 .. MaxPrompt :
          LET r0 == [NewRequest("generate", prompt, max_tokens, plen, K, temperature, TRUE)
                        EXCEPT !.engine = TRUE, !.served = req.served + 1]
          IN  req' = IF \/ prompt_blank(prompt)
                        \/ generate_max_tokens_invalid(max_tokens)
                        \/ temperature_invalid(temperature)
                     THEN [r0 EXCEPT !.pc = "done", !.exc = "ValueError",
                                     !.outcome = "rejected"]
                     ELSE [r0 EXCEPT !.pc = "safe"]
    /\ engine' = [engine EXCEPT !.safe_runs = 0]
    /\ UNCHANGED <<cacheVars, envVars, models, threads, decoder, step>>

\* _generate_safe up to the first statement of the decoder's generate
GenerateSafe ==
    /\ req.pc = "safe"
    /\ engine' = [engine EXCEPT !.is_loaded = TRUE, !.safe_runs = @ + 1]
    /\ decoder' = [(IF engine.is_loaded THEN decoder ELSE LoadedDecoder)
                      EXCEPT !.speculation_depth = req.speculation_depth,
                             !.temperature = req.temperature]
    /\ req' = [req EXCEPT !.pc = "start_draft", !.attempt = @ + 1,
                          !.input_len = req.prompt_len,
                          !.generated_tokens = << >>, !.new_tokens = << >>,
                          !.exc = "none", !.outcome = "none"]
    /\ UNCHANGED <<cacheVars, envVars, models, threads, step>>

\* "out of memory" in str(e).lower() or "allocate" in str(e).lower(): the
\* cache's RuntimeError messages all name "allocate"
is_oom(exc) == exc = "RuntimeError"

\* the rest of _generate_safe (metrics, result) or the except clauses of
\* generate: one retry after an out-of-memory RuntimeError
EngineAfterSafe ==
    /\ req.pc = "after_safe"
    /\ IF req.exc = "none"
       THEN /\ engine' = [engine EXCEPT !.total_requests = @ + 1,
                                        !.total_tokens = @ + Len(req.generated_tokens)]
            /\ req' = [req EXCEPT !.pc = "done", !.outcome = "returned"]
       ELSE IF is_oom(req.exc) /\ req.attempt = 1
            THEN /\ req' = [req EXCEPT !.pc = "safe"]
                 /\ UNCHANGED engine
            ELSE /\ req' = [req EXCEPT !.pc = "done", !.outcome = "raised"]
                 /\ UNCHANGED engine
    /\ UNCHANGED <<cacheVars, envVars, models, threads, decoder, step>>

EngineNext ==
    \/ EngineGenerate
    \/ GenerateSafe
    \/ StartDraft
    \/ StartTarget
    \/ LoopTest
    \/ DraftCall
    \/ VerifyCall
    \/ AcceptToken
    \/ AcceptEnd
    \/ StepReturn
    \/ CollectAdaptive
    \/ Finally
    \/ EngineAfterSafe

(***************************************************************************)
(* HelixEngine.generate_stream                                             *)
(***************************************************************************)
\* "config.max_tokens and config.max_tokens < 1"
max_tokens_invalid(max_tokens) == max_tokens # 0 /\ max_tokens < 1

StreamingToken_shifted(token_id, index, is_final) ==
    [token_id |-> token_id, index |-> index + 1, is_final |-> is_final]

\* the fields of a StreamingToken the stream contract is about
StreamingToken(token_id, index, is_final) ==
    [token_id |-> token_id, index |-> index, is_final |-> is_final]

\* from the entry to the try block: validation, decoder set-up, lane allocation
StreamBegin ==
    /\ req.pc = "idle" /\ req.entry = "stream"
    /\ IF prompt_blank(req.prompt) \/ max_tokens_invalid(req.max_tokens)
       THEN /\ req' = [req EXCEPT !.pc = "done", !.exc = "ValueError",
                                  !.outcome = "rejected"]
            /\ UNCHANGED <<cacheVars, last_error, decoder>>
       ELSE /\ decoder' = IF req.use_speculative
                          THEN [decoder EXCEPT !.speculation_depth = req.speculation_depth,
                                               !.temperature = req.temperature]
                          ELSE decoder
            /\ IF decoder.use_cache
               THEN LET r == allocate_sequence(Cache)
                    IN  /\ SetCache(r.c)
                        /\ last_error' = r.error
                        /\ req' = IF r.seq_id = None
                                  THEN [req EXCEPT !.pc = "done", !.exc = r.error,
                                                   !.outcome = "raised"]
                                  ELSE [req EXCEPT !.pc = "loop", !.seq_id = r.seq_id,
                                                   !.opened = @ \cup {r.seq_id}]
               ELSE /\ req' = [req EXCEPT !.pc = "loop"]
                    /\ UNCHANGED <<cacheVars, last_error>>
    /\ UNCHANGED <<held, returned, freed, direct_calls, last_taken, ingested, models, engine, threads, step>>

\* while len(generated_tokens) < config.max_tokens: start one step
StreamLoopTest ==
    /\ req.pc = "loop" /\ req.entry = "stream"
    /\ IF Len(req.generated_tokens) < req.max_tokens
       THEN IF req.use_speculative
            THEN /\ req' = [req EXCEPT !.pc = "step"]
                 /\ step' = StepStart(req.speculation_depth, req.temperature,
                                      req.input_len, None, None)
            ELSE /\ req' = [req EXCEPT !.pc = "auto"]
                 /\ UNCHANGED step
       ELSE /\ req' = [req EXCEPT !.pc = "finally"]
            /\ UNCHANGED step
    /\ UNCHANGED <<cacheVars, envVars, models, engine, threads, decoder>>

\* softmax(logits / max(temperature, 1e-5)) then torch.multinomial: at
\* temperature 0 the mass lies on the largest logits
sharpened(w, temperature) ==
    IF temperature = 0 THEN {v \in Tokens : \A x \in Tokens : w[x] <= w[v]}
    ELSE multinomial(w)

\* the standard autoregressive step: one draft model call, one token
AutoregressiveStep ==
    /\ req.pc = "auto"
    /\ \E fail \in BOOLEAN :
          IF fail
          THEN req' = [req EXCEPT !.pc = "finally", !.exc = "ModelError"]
          ELSE \E next_token \in sharpened(models.draft, req.temperature) :
                  req' = [req EXCEPT !.pc = "collect", !.new_tokens = <<next_token>>,
                                     !.j = 0, !.produced = Append(@, next_token)]
    /\ UNCHANGED <<cacheVars, envVars, models, engine, threads, decoder, step>>

\* "for token_id in new_token_ids": the body for one token, up to its yield
StreamEmit ==
    /\ req.pc = "collect" /\ req.entry = "stream"
    /\ LET token_id == req.new_tokens[req.j + 1]
       IN  IF token_id = eos_token_id
           THEN req' = [req EXCEPT
                          !.events = Append(@, StreamingToken(token_id, req.token_index, TRUE)),
                          !.pc = "finally"]
           ELSE LET g == Append(req.generated_tokens, token_id)
                    ev == Append(req.events,
                                 StreamingToken(token_id, req.token_index, FALSE))
                IN  IF Len(g) >= req.max_tokens
                    THEN req' = [req EXCEPT !.generated_tokens = g, !.events = ev,
                                            !.token_index = @ + 1,
                                            !.pc = "final_marker"]
                    ELSE IF req.j + 1 < Len(req.new_tokens)
                         THEN req' = [req EXCEPT !.generated_tokens = g, !.events = ev,
                                                 !.token_index = @ + 1,
                                                 !.j = @ + 1]
                         ELSE req' = [req EXCEPT !.generated_tokens = g, !.events = ev,
                                                 !.token_index = @ + 1,
                                                 !.input_len = @ + Len(req.new_tokens),
                                                 !.pc = "loop"]
    /\ UNCHANGED <<cacheVars, envVars, models, engine, threads, decoder, step>>

\* the final marker yielded when max_tokens is reached
StreamFinalMarker ==
    /\ req.pc = "final_marker"
    /\ req' = [req EXCEPT
                  !.events = Append(@, StreamingToken(-1, req.token_index, TRUE)),
                  !.pc = "finally"]
    /\ UNCHANGED <<cacheVars, envVars, models, engine, threads, decoder, step>>

\* the finally clause of generate_stream
StreamFinally ==
    /\ req.pc = "finally" /\ req.entry = "stream"
    /\ IF req.seq_id # None /\ decoder.use_cache
       THEN SetCache(free_sequence(Cache, req.seq_id))
       ELSE UNCHANGED cacheVars
    /\ req' = [req EXCEPT !.pc = "done",
                          !.outcome = IF req.exc = "none" THEN "returned" ELSE "raised"]
    /\ UNCHANGED <<envVars, models, engine, threads, decoder, step>>

(***************************************************************************)
(* batch_speculative_generate                                              *)
(***************************************************************************)
max_steps_no_slack(max_tokens, speculation_depth) == max_tokens \div speculation_depth

\* max_steps = (max_tokens // speculation_depth) + 2
max_steps(max_tokens, speculation_depth) == (max_tokens \div speculation_depth) + 2

\* the locals of a batch_speculative_generate call at its entry; produced
\* keeps, per prompt, every token the draft model sampled for it
NewBatch(batch_size, max_tokens, temperature, speculation_depth) ==
    [entry |-> "batch", pc |-> "idle", batch_size |-> batch_size,
     max_tokens |-> max_tokens, temperature |-> temperature,
     speculation_depth |-> speculation_depth,
     step |-> 0, max_steps |-> 0,
     generated_tokens |-> [b \in 1 .. batch_size |-> << >>],
     finished |-> [b \in 1 .. batch_size |-> FALSE],
     draft_tokens |-> [b \in 1 .. batch_size |-> << >>],
     produced |-> [b \in 1 .. batch_size |-> << >>],
     results |-> << >>, exc |-> "none", outcome |-> "none"]

\* two models and one batch_speculative_generate call
BatchInit ==
    /\ CacheInit
    /\ held = {} /\ returned = {} /\ freed = {} /\ direct_calls = 0 /\ last_taken = 0
    /\ last_error = "none"
    /\ ingested = << >>
    /\ \E q \in Dists, p \in Dists : models = [draft |-> q, target |-> p]
    /\ engine = EngineOff /\ threads = << >>
    /\ decoder = [kind |-> "none"]
    /\ \E batch_size \in 0 .. MaxBatch, mt \in 0 .. MaxTokens, K \in 0 .. MaxK,
          temperature \in Temperatures \cup {-1} :
          req = NewBatch(batch_size, mt, temperature, K)
    /\ step = StepIdle

all_finished(r) == \A b \in 1 .. r.batch_size : r.finished[b]

\* input validation, then the set-up of the loop
BatchBegin ==
    /\ req.pc = "idle" /\ req.entry = "batch"
    /\ IF \/ req.batch_size = 0
          \/ req.max_tokens < 1
          \/ temperature_invalid(req.temperature)
          \/ req.speculation_depth < 1
       THEN req' = [req EXCEPT !.pc = "done", !.exc = "ValueError", !.outcome = "rejected"]
       ELSE req' = [req EXCEPT !.pc = "loop",
                               !.max_steps = max_steps(req.max_tokens, req.speculation_depth)]
    /\ UNCHANGED <<cacheVars, envVars, models, engine, threads, decoder, step>>

\* "while step < max_steps and not all(finished): step += 1"
BatchLoopTest ==
    /\ req.pc = "loop" /\ req.entry = "batch"
    /\ IF req.step < req.max_steps /\ ~all_finished(req)
       THEN req' = [req EXCEPT !.step = @ + 1, !.pc = "draft"]
       ELSE req' = [req EXCEPT !.pc = "decode"]
    /\ UNCHANGED <<cacheVars, envVars, models, engine, threads, decoder, step>>

\* PHASE 1: speculation_depth draft forward passes, one sampled token per
\* sequence and pass; a failing pass raises RuntimeError
BatchDraft ==
    /\ req.pc = "draft"
    /\ \E fail \in BOOLEAN :
          IF fail
          THEN req' = [req EXCEPT !.pc = "done", !.exc = "RuntimeError", !.outcome = "raised"]
          ELSE \E d \in [1 .. req.batch_size ->
                           [1 .. req.speculation_depth ->
                               sharpened(models.draft, req.temperature)]] :
                  req' = [req EXCEPT !.draft_tokens = d,
                                     !.produced = [b \in 1 .. req.batch_size |-> @[b] \o d[b]],
                                     !.pc = "verify"]
    /\ UNCHANGED <<cacheVars, envVars, models, engine, threads, decoder, step>>

\* PHASE 2: one target forward pass over the extended batch
BatchVerify ==
    /\ req.pc = "verify"
    /\ \E fail \in BOOLEAN :
          IF fail
          THEN req' = [req EXCEPT !.pc = "done", !.exc = "RuntimeError", !.outcome = "raised"]
          ELSE req' = [req EXCEPT !.pc = "accept"]
    /\ UNCHANGED <<cacheVars, envVars, models, engine, threads, decoder, step>>

\* "for token in seq_tokens" from index i on, for a sequence that has
\* generated_len tokens: the tokens taken and whether the sequence finished
RECURSIVE BatchTake(_, _, _, _, _)
BatchTake(generated_len, seq_tokens, i, accepted_tokens, max_tokens) ==
    IF i > Len(seq_tokens) THEN [accepted_tokens |-> accepted_tokens, finished |-> FALSE]
    ELSE IF seq_tokens[i] = eos_token_id
         THEN [accepted_tokens |-> accepted_tokens, finished |-> TRUE]
         ELSE LET a == Append(accepted_tokens, seq_tokens[i])
              IN  IF generated_len + Len(a) >= max_tokens
                  THEN [accepted_tokens |-> a, finished |-> TRUE]
                  ELSE BatchTake(generated_len, seq_tokens, i + 1, a, max_tokens)

\* PHASE 3: every unfinished sequence takes all its draft tokens up to a
\* stop token or the cap
BatchAccept ==
    /\ req.pc = "accept"
    /\ LET taken == [b \in 1 .. req.batch_size |->
                        BatchTake(Len(req.generated_tokens[b]), req.draft_tokens[b], 1,
                                  << >>, req.max_tokens)]
       IN  req' = [req EXCEPT
                     !.generated_tokens = [b \in 1 .. req.batch_size |->
                                              IF req.finished[b] THEN @[b]
                                              ELSE @[b] \o taken[b].accepted_tokens],
                     !.finished = [b \in 1 .. req.batch_size |->
                                      @[b] \/ taken[b].finished],
                     !.pc = "loop"]
    /\ UNCHANGED <<cacheVars, envVars, models, engine, threads, decoder, step>>

\* PHASE 4: the "tokens" of each result; an empty list is replaced by
\* [tokenizer.eos_token_id]
BatchDecode ==
    /\ req.pc = "decode"
    /\ req' = [req EXCEPT
                 !.results = [b \in 1 .. req.batch_size |->
                                 IF req.generated_tokens[b] = << >>
                                 THEN <<eos_token_id>>
                                 ELSE req.generated_tokens[b]],
                 !.pc = "done", !.outcome = "returned"]
    /\ UNCHANGED <<cacheVars, envVars, models, engine, threads, decoder, step>>

BatchNext ==
    \/ BatchBegin
    \/ BatchLoopTest
    \/ BatchDraft
    \/ BatchVerify
    \/ BatchAccept
    \/ BatchDecode

(***************************************************************************)
(* generate_stream cancelled by its consumer                               *)
(***************************************************************************)
\* a loaded engine and one valid generate_stream call
CancelInit ==
    /\ CacheInit
    /\ held = {} /\ returned = {} /\ freed = {} /\ direct_calls = 0 /\ last_taken = 0
    /\ last_error = "none"
    /\ ingested = << >>
    /\ \E q \in Dists, p \in Dists : models = [draft |-> q, target |-> p]
    /\ engine = EngineOff /\ threads = << >>
    /\ \E use_cache \in BOOLEAN : decoder = NewDecoder("adaptive", use_cache, MaxK, 1)
    /\ \E mt \in 1 .. MaxTokens, plen \in 1 .. MaxPrompt, K \in 1 .. MaxK,
          temperature \in Temperatures, use_speculative \in BOOLEAN :
          req = NewRequest("stream", "text", mt, plen, K, temperature, use_speculative)
    /\ step = StepIdle

\* the generator is suspended in "await asyncio.to_thread(...)"
AtAwait == req.pc \in {"step", "auto"}

\* the generator is suspended at a "yield StreamingToken(...)"
AtYield ==
    \/ req.pc = "loop" /\ req.events # << >>
    \/ req.pc = "collect" /\ req.j > 0
    \/ req.pc = "final_marker"

\* the consumer cancels: CancelledError is raised at the await, GeneratorExit
\* at the yield; either leaves the try block for the finally clause.  The
\* function handed to asyncio.to_thread keeps running in its thread.
Cancel ==
    /\ req.entry = "stream"
    /\ AtAwait \/ AtYield
    /\ req' = [req EXCEPT !.pc = "finally",
                          !.exc = IF AtAwait THEN "CancelledError" ELSE "GeneratorExit"]
    /\ UNCHANGED <<cacheVars, envVars, models, engine, threads, decoder, step>>

\* speculative_decode_step in the worker thread after its awaiter is gone:
\* the next draft model call, or the target model call after the K-th draft
WorkerCall ==
    /\ req.exc = "CancelledError"
    /\ step.pc = "draft"
    /\ \E fail \in BOOLEAN :
          IF fail
          THEN step' = [step EXCEPT !.pc = "raised"]
          ELSE IF Len(step.draft_tokens) < step.K
               THEN \E token \in sample_token(models.draft, step.temperature) :
                       step' = [step EXCEPT !.draft_tokens = Append(@, token)]
               ELSE step' = [step EXCEPT !.pc = "accept",
                                         !.logits_seq_len = full_seq_len(step)]
    /\ UNCHANGED <<cacheVars, envVars, models, engine, threads, decoder, req>>

CancelNext ==
    \/ StreamBegin
    \/ StreamLoopTest
    \/ AutoregressiveStep
    \/ StreamEmit
    \/ StreamFinalMarker
    \/ StreamFinally
    \/ DraftCall
    \/ VerifyCall
    \/ AcceptToken
    \/ AcceptEnd
    \/ StepReturn
    \/ Cancel
    \/ WorkerCall

GenNext ==
    \/ StreamBegin
    \/ StreamLoopTest
    \/ AutoregressiveStep
    \/ StreamEmit
    \/ StreamFinalMarker
    \/ StreamFinally
    \/ OtherOpen
    \/ Begin
    \/ StartDraft
    \/ StartTarget
    \/ LoopTest
    \/ DraftCall
    \/ VerifyCall
    \/ AcceptToken
    \/ AcceptEnd
    \/ StepReturn
    \/ CollectSpec
    \/ CollectAdaptive
    \/ Finally

\* one call of any of the three generation entry points
TermInit == GenInit \/ BatchInit

TermNext == GenNext \/ BatchNext

\* the model call of a step raising: the failing case of DraftCall and of
\* VerifyCall
ModelCallRaises ==
    /\ req.pc = "step" /\ step.pc = "draft"
    /\ Raise("ModelError")
    /\ UNCHANGED <<cacheVars, envVars, models, engine, threads, decoder>>

(***************************************************************************)
(* Pool and lane properties                                                *)
(***************************************************************************)
Count(q, x) == Cardinality({i \in 1 .. Len(q) : q[i] = x})

\* how many table slots of live lanes name block b
LaneRefs(b) ==
    Cardinality({p \in Live(Cache) \X (1 .. NumBlocks) :
                    /\ p[2] <= Len(sequences[p[1]].block_ids)
                    /\ sequences[p[1]].block_ids[p[2]] = b})

Holders(b) == LaneRefs(b) + (IF b \in held THEN 1 ELSE 0)

InUse == {b \in BlockIds : ref_count[b] > 0}

\* C2: every block id is exactly once on the free list with ref_count 0, or
\* off the free list with ref_count > 0 and held by exactly one holder (one
\* slot of one live lane's table, or the direct caller that allocated it);
\* num_free_blocks + |{ref_count > 0}| = N; utilization is the fraction of
\* blocks with ref_count > 0 and lies in [0, 1].
C2_BlockPoolInvariant ==
    /\ \A b \in BlockIds :
          \/ Count(free_blocks, b) = 1 /\ ref_count[b] = 0 /\ Holders(b) = 0
          \/ Count(free_blocks, b) = 0 /\ ref_count[b] > 0 /\ Holders(b) = 1
    /\ num_free_blocks(Cache) + Cardinality(InUse) = NumBlocks
    /\ utilization(Cache) = Cardinality(InUse)
    /\ utilization(Cache) >= 0 /\ utilization(Cache) <= NumBlocks

\* C3: once free_sequence has been called for every id allocate_sequence
\* returned, all N blocks are free and the cache reports no live sequence.
C3_AllClosedAllFree ==
    (returned # {} /\ returned \subseteq freed)
        => (num_free_blocks(Cache) = NumBlocks /\ num_sequences(Cache) = 0)

(***************************************************************************)
(* Generation properties                                                   *)
(***************************************************************************)
\* the blocks of the lanes other requests hold
OtherBlocks == UNION {Range(sequences[s].block_ids) : s \in returned \cap Live(Cache)}

\* C1: when a generate call with a KV cache attached has returned or raised,
\* no lane it opened is live and no block allocated for it is still allocated.
C1_LanesFreedOnExit ==
    (req.entry = "generate" /\ decoder.use_cache /\ req.pc = "done")
        => (req.opened \cap Live(Cache) = {} /\ InUse \subseteq OtherBlocks)

\* C4: the number of generated tokens a blocking generate call returns never
\* exceeds max_tokens (max_tokens >= 1, any depth K).
C4_LengthCapBlocking ==
    (req.entry = "generate" /\ req.pc = "done" /\ req.outcome = "returned"
        /\ req.max_tokens >= 1)
        => Len(req.generated_tokens) <= req.max_tokens

NonFinal(events) == SelectSeq(events, LAMBDA e : ~e.is_final)

IsFinalMarker(e) == e.is_final /\ e.token_id = -1

\* C5: a stream never yields more than max_tokens non-final events, and a
\* stream in which no model produced the stop token yields exactly max_tokens
\* non-final events followed by the final marker.
C5_LengthCapStream ==
    req.entry = "stream" =>
        /\ Len(NonFinal(req.events)) <= Max(req.max_tokens, 0)
        /\ (req.pc = "done" /\ req.outcome = "returned"
               /\ ~Contains(req.produced, eos_token_id))
             => /\ Len(req.events) = req.max_tokens + 1
                /\ \A n \in 1 .. req.max_tokens : ~req.events[n].is_final
                /\ IsFinalMarker(req.events[Len(req.events)])

IsPrefix(a, b) == Len(a) <= Len(b) /\ \A n \in 1 .. Len(a) : a[n] = b[n]

TokenIds(events) == [n \in 1 .. Len(events) |-> events[n].token_id]

\* what a finished generation emitted: generated_tokens of the blocking
\* decoders, the token ids of the non-final events of a stream
Emitted == IF req.entry = "stream" THEN TokenIds(NonFinal(req.events))
           ELSE req.generated_tokens

\* C6: a generation that ended with the stop token among the tokens its
\* steps produced emitted only tokens produced before the stop token, in
\* order, and never the stop token; nothing if the first token was the stop.
C6_StopTokenContainment ==
    (req.pc = "done" /\ req.outcome = "returned" /\ Contains(req.produced, eos_token_id))
        => /\ ~Contains(Emitted, eos_token_id)
           /\ IsPrefix(Emitted, req.produced)
           /\ Len(Emitted) < IndexOf(req.produced, eos_token_id)
           /\ (req.produced[1] = eos_token_id => Emitted = << >>)

\* a finished generation whose last step placed a token after the stop token
\* and that emitted at least one token
C6_Witness ==
    /\ req.pc = "done" /\ req.outcome = "returned"
    /\ Contains(req.produced, eos_token_id)
    /\ IndexOf(req.produced, eos_token_id) < Len(req.produced)
    /\ Len(Emitted) >= 1

NumFinal(events) == Cardinality({n \in 1 .. Len(events) : events[n].is_final})

\* C7: a generate_stream run that passed validation and has ended yielded
\* exactly one is_final event, and it is the last event.
C7_ExactlyOneFinal ==
    (req.entry = "stream" /\ req.pc = "done" /\ req.outcome # "rejected")
        => /\ NumFinal(req.events) = 1
           /\ req.events[Len(req.events)].is_final

\* C8: the non-final events of a stream carry index 0, 1, 2, ... in emission
\* order, and the i-th of them carries the i-th token the steps produced.
C8_StreamOrder ==
    req.entry = "stream" =>
        LET nf == NonFinal(req.events)
        IN  /\ \A n \in 1 .. Len(nf) : nf[n].index = n - 1 /\ nf[n].token_id = req.produced[n]
            /\ Len(nf) <= Len(req.produced)
            /\ \A n \in 1 .. Len(req.events) :
                   req.events[n].is_final \/ req.events[n] = nf[n]

\* a stream that emitted tokens of two different steps
C8_Witness ==
    /\ req.entry = "stream"
    /\ Len(NonFinal(req.events)) >= 3
    /\ Len(req.new_tokens) < Len(req.produced)
    /\ req.pc = "done"

(***************************************************************************)
(* Step properties                                                         *)
(***************************************************************************)
\* the step has reached its acceptance loop (step.log exists from there on)
InAcceptance == step.pc \in {"accept", "bonus", "returned"}

\* the probability, times Denom, that draft token x is drawn and accepted
AcceptMass(x) ==
    LET a == compute_acceptance_probability(models.target, models.draft, x)
    IN  (models.draft[x] * a.num) \div a.den

\* the probability, times Denom, that the drawn draft token is rejected
RejectMass == Denom - SumUpTo([x \in Tokens |-> AcceptMass(x)], VocabSize - 1)

\* the probability that the token appended for draft position i is v, as the
\* fraction n / d: the draft token itself when the loop takes it without a
\* test, else accepted as v or rejected and replaced by v
AppendedMass(st, i, v) ==
    LET adj == adjusted_probs(models.target, models.draft)
    IN  IF out_of_range(st, i)
        THEN [n |-> models.draft[v], d |-> Denom]
        ELSE IF Total(adj) = 0
             THEN [n |-> AcceptMass(v), d |-> Denom]
             ELSE [n |-> AcceptMass(v) * Total(adj) + RejectMass * adj[v],
                   d |-> Denom * Total(adj)]

\* C9: the token the acceptance loop appends for a draft position has the
\* target distribution p (marginalised over the draft draw and u), and a
\* bonus token is one the target distribution can produce.
C9_DistributionPreserved ==
    /\ (req.pc = "step" /\ step.pc = "accept" /\ step.i < step.K)
          => \A v \in Tokens :
                LET m == AppendedMass(step, step.i, v)
                IN  m.n * Denom = models.target[v] * m.d
    /\ (step.pc = "returned" /\ step.num_accepted = step.K)
          => models.target[step.accepted_tokens[step.K + 1]] > 0

\* C10: the loop examines the draft tokens in order; x_k is accepted iff
\* u < min(1, p(x_k)/q(x_k)) and rejected when q(x_k) = 0; a rejection appends
\* one token of the residual max(0, p - q) and is the last thing the loop does.
C10_AcceptanceLoop ==
    InAcceptance =>
        \A n \in 1 .. Len(step.log) :
            LET e == step.log[n]
                x == step.draft_tokens[n]
                qx == models.draft[x]
                px == models.target[x]
            IN  /\ e.i = n - 1
                /\ e.tested
                /\ e.accepted <=> (qx > 0 /\ e.un * qx < Min(qx, px) * UDen)
                /\ e.accepted => step.accepted_tokens[n] = x
                /\ ~e.accepted =>
                      /\ n = Len(step.log)
                      /\ Len(step.accepted_tokens) = n
                      /\ step.accepted_tokens[n] = e.token
                      /\ models.target[e.token] > models.draft[e.token]

\* C11: when draft and target distributions are identical, a step accepts
\* every draft token whatever u is: num_accepted = K, the acceptance rate is
\* 1 and a bonus token follows the K draft tokens.
C11_IdenticalAcceptsAll ==
    (models.draft = models.target /\ step.pc = "returned")
        => /\ step.num_accepted = step.K
           /\ acceptance_rate(step).n = acceptance_rate(step).d
           /\ Len(step.accepted_tokens) = step.K + 1
           /\ \A n \in 1 .. step.K :
                 step.log[n].accepted /\ step.accepted_tokens[n] = step.draft_tokens[n]

\* a returned step of depth MaxK on identical distributions in which the
\* largest u was drawn for a tested token
C11_Witness ==
    /\ models.draft = models.target
    /\ step.pc = "returned" /\ step.K = MaxK /\ step.temperature = 1
    /\ \E n \in 1 .. Len(step.log) : step.log[n].tested /\ step.log[n].un = UDen - 1

\* every draft token of the step went through the loop and was accepted
AllDraftsAccepted(st) ==
    Len(st.log) = st.K /\ \A n \in 1 .. Len(st.log) : st.log[n].accepted

\* C12: a returned step carries a bonus token, drawn from the target
\* distribution, iff all K draft tokens were accepted, and then
\* num_generated = K + 1; after a rejection there is no bonus token and
\* num_generated = num_accepted + 1.
C12_BonusIffAllAccepted ==
    step.pc = "returned" =>
        LET num_generated == Len(step.accepted_tokens)
        IN  /\ AllDraftsAccepted(step) <=> num_generated = Len(step.log) + 1
            /\ AllDraftsAccepted(step) =>
                  /\ num_generated = step.K + 1
                  /\ step.num_accepted = step.K
                  /\ step.accepted_tokens[step.K + 1]
                         \in sample_token(models.target, step.temperature)
            /\ ~AllDraftsAccepted(step) =>
                  /\ num_generated = step.num_accepted + 1
                  /\ num_generated = Len(step.log)
                  /\ ~step.log[Len(step.log)].accepted

\* a returned step that accepted one draft token and rejected the next
C12_Witness ==
    /\ step.pc = "returned" /\ step.K = 2 /\ step.num_accepted = 1
    /\ Len(step.accepted_tokens) = 2

\* C13: at temperature 0 the draft tokens are the draft's argmax, x_k is
\* accepted iff it equals the target's argmax, and a rejection is replaced by
\* the target's argmax.
C13_GreedyStep ==
    (InAcceptance /\ step.temperature = 0) =>
        /\ \A n \in 1 .. Len(step.draft_tokens) :
              step.draft_tokens[n] = argmax(models.draft)
        /\ \A n \in 1 .. Len(step.log) :
              LET e == step.log[n]
              IN  /\ e.accepted <=> step.draft_tokens[n] = argmax(models.target)
                  /\ ~e.accepted => e.token = argmax(models.target)

\* the distribution w puts all its mass on token v
Deterministic(w, v) == w[v] = Denom

\* C14: with a target that always predicts t and a draft that always
\* predicts d # t, every step of a cached generate call (sampling
\* temperature above 0) emits exactly the one token t, with num_accepted = 0
\* and no bonus token.
C14_DeterministicMismatch ==
    (/\ req.entry = "generate" /\ decoder.use_cache /\ decoder.temperature > 0
     /\ step.pc = "returned"
     /\ \E t \in Tokens, d \in Tokens :
           t # d /\ Deterministic(models.target, t) /\ Deterministic(models.draft, d))
        => /\ step.accepted_tokens = <<argmax(models.target)>>
           /\ step.num_accepted = 0

(***************************************************************************)
(* KV store properties                                                     *)
(***************************************************************************)
\* the lanes a caller opened for ingest and has not closed
StoreLanes == DOMAIN ingested

\* what the caller passed for lane s, layer l, as the cache's dtype holds it
AsStored(s, l) == [i \in 1 .. Len(ingested[s][l]) |-> to_storage_dtype(ingested[s][l][i])]

\* the number of token positions lane s took in all its store_hf_cache calls
Ingested(s) == Len(ingested[s][0])

\* C15 as stated: after store_hf_cache calls totalling M positions the lane's
\* length is M and get_hf_cache returns, in every layer, M entries of which
\* entry i is exactly the value passed for position i.
C15_RoundTripExact ==
    \A s \in StoreLanes :
        /\ get_cached_length(Cache, s) = Ingested(s)
        /\ Ingested(s) > 0 =>
              \A l \in Layers : get_hf_cache(Cache, s)[l] = ingested[s][l]

\* C15 amended: the same, with entry i equal to the value passed for position
\* i cast to the cache's dtype.
C15_RoundTrip ==
    \A s \in StoreLanes :
        /\ get_cached_length(Cache, s) = Ingested(s)
        /\ Ingested(s) > 0 =>
              \A l \in Layers :
                 /\ Len(get_hf_cache(Cache, s)[l]) = Ingested(s)
                 /\ get_hf_cache(Cache, s)[l] = AsStored(s, l)

\* a lane filled across a block boundary with entries that differ between
\* positions, one of them not representable in the cache's dtype
C15_Witness ==
    \E s \in StoreLanes :
        /\ Ingested(s) = BlockSize + 1
        /\ Len(sequences[s].block_ids) = 2
        /\ \E i, j \in 1 .. Ingested(s) :
              /\ ingested[s][0][i] # ingested[s][0][j]
              /\ to_storage_dtype(ingested[s][0][i]) # ingested[s][0][i]

CeilDiv(a, b) == (a + b - 1) \div b

C17_LaneIsolationExact ==
    \A a \in StoreLanes, b \in StoreLanes :
        (a # b /\ Ingested(a) > 0 /\ Ingested(b) > 0) =>
            /\ \A l \in Layers : get_hf_cache(Cache, a)[l] = ingested[a][l]
            /\ \A l \in Layers : get_hf_cache(Cache, b)[l] = ingested[b][l]
            /\ Range(sequences[a].block_ids) \cap Range(sequences[b].block_ids) = {}

\* C17 amended: two live lanes read back the streams they were given, each as
\* the cache's dtype holds it, whatever the order of the store_hf_cache
\* calls was; no write to one shows in the other and they share no block.
C17_LaneIsolation ==
    \A a \in StoreLanes, b \in StoreLanes :
        (a # b /\ Ingested(a) > 0 /\ Ingested(b) > 0) =>
            /\ \A l \in Layers : get_hf_cache(Cache, a)[l] = AsStored(a, l)
            /\ \A l \in Layers : get_hf_cache(Cache, b)[l] = AsStored(b, l)
            /\ Range(sequences[a].block_ids) \cap Range(sequences[b].block_ids) = {}

\* two live lanes holding different streams, both at least two positions
\* long (so neither was filled by the last call alone when MaxStore = 2 and
\* one of them is longer)
C17_Witness ==
    \E a \in StoreLanes, b \in StoreLanes :
        /\ a # b
        /\ Ingested(a) = 3 /\ Ingested(b) >= 2
        /\ AsStored(a, 0)[1] # AsStored(b, 0)[1]

\* every block is on the free list exactly once with ref_count 0, or off it
\* with ref_count > 0 and in exactly one slot of one live lane's table
AllocatorInvariant ==
    /\ \A b \in BlockIds :
          \/ Count(free_blocks, b) = 1 /\ ref_count[b] = 0 /\ LaneRefs(b) = 0
          \/ Count(free_blocks, b) = 0 /\ ref_count[b] > 0 /\ LaneRefs(b) = 1
    /\ num_free_blocks(Cache) + Cardinality(InUse) = NumBlocks

\* a' > tau + delta and a' < tau - delta for tau = 0.6, delta = 0.1
AboveBand(a) == a.n * 10 > 7 * a.d

BelowBand(a) == a.n * 10 < 5 * a.d

\* a2 = alpha * rate + (1 - alpha) * a1 for alpha = 0.3, as fractions
IsEma(a2, rate, a1) ==
    a2.n * (10 * rate.d * a1.d) = a2.d * (3 * rate.n * a1.d + 7 * a1.n * rate.d)

\* K after one adjustment by the rule of C22
BandStep(K, a, K_min, K_max) ==
    IF AboveBand(a) /\ K < K_max THEN K + 1
    ELSE IF BelowBand(a) /\ K > K_min THEN K - 1
    ELSE K

\* C22: after every step a' becomes alpha * a_step + (1 - alpha) * a' and K
\* moves by at most one: up iff a' > tau + delta and K < K_max, down iff
\* a' < tau - delta and K > K_min; K stays within [K_min, K_max] and changes
\* in no other place.
C22_ControllerBand ==
    /\ [](decoder.kind = "adaptive" =>
             (decoder.min_depth <= decoder.current_depth
                /\ decoder.current_depth <= decoder.max_depth))
    /\ [][CollectAdaptive =>
             /\ IsEma(decoder'.ema_acceptance_rate, acceptance_rate(step),
                      decoder.ema_acceptance_rate)
             /\ decoder'.current_depth
                   = BandStep(decoder.current_depth, decoder'.ema_acceptance_rate,
                              decoder.min_depth, decoder.max_depth)]_vars
    /\ [][(decoder.kind = "adaptive"
             /\ (decoder'.current_depth # decoder.current_depth
                   \/ decoder'.ema_acceptance_rate # decoder.ema_acceptance_rate))
            => CollectAdaptive]_vars

\* the controller raised K after a run of fully accepted steps
C22_Witness ==
    /\ decoder.kind = "adaptive" /\ req.entry = "generate"
    /\ decoder.current_depth = decoder.speculation_depth + 1
    /\ AboveBand(decoder.ema_acceptance_rate)

\* C23: from a' = 0.5 and any K within the bounds a constant rate of 1.0
\* never lowers K and K is K_max from step K_max - K_min + 5 on
\* (5 = ceil(log_0.7(0.1 / 0.5))); a constant 0.0 never raises K and K is
\* K_min from the same step on.
C23_ControllerConverges ==
    /\ [][Feed => IF req.rate.n = 1
                  THEN decoder'.current_depth >= decoder.current_depth
                  ELSE decoder'.current_depth <= decoder.current_depth]_vars
    /\ []((req.pc = "feed"
             /\ req.steps >= decoder.max_depth - decoder.min_depth + 5)
            => decoder.current_depth
                  = IF req.rate.n = 1 THEN decoder.max_depth ELSE decoder.min_depth)

\* a controller that started at K_min < K_max was fed 1.0 for as many steps
\* as the bound says and is at K_max
C23_Witness ==
    /\ req.pc = "feed" /\ req.rate.n = 1
    /\ decoder.speculation_depth = decoder.min_depth
    /\ decoder.min_depth < decoder.max_depth
    /\ req.steps >= decoder.max_depth - decoder.min_depth + 5
    /\ decoder.current_depth = decoder.max_depth

\* C24: the first speculative step of every request served by
\* HelixEngine.generate runs with K = the request's configured speculation
\* depth and with a' = 0.5, whatever earlier requests did.
C24_ControllerPerRequest ==
    (req.pc = "step" /\ req.engine /\ req.generated_tokens = << >>) =>
        /\ step.K = req.speculation_depth
        /\ decoder.ema_acceptance_rate.n * 2 = decoder.ema_acceptance_rate.d

\* C25: generate rejects with ValueError every request with a blank prompt,
\* max_tokens below 1 or a negative temperature, before the models are loaded
\* or a lane is opened and without touching the metrics.
C25_InvalidRejected ==
    (req.pc # "none" /\ req.engine
       /\ (prompt_blank(req.prompt) \/ req.max_tokens < 1 \/ req.temperature < 0)) =>
        /\ req.pc = "done" /\ req.exc = "ValueError" /\ req.outcome = "rejected"
        /\ req.opened = {}
        /\ req.served = 1 =>
              (~engine.is_loaded /\ engine.total_requests = 0 /\ next_seq_id = 0)

\* C26: the generation body _generate_safe runs at most once per generate
\* call, whatever fails.
C26_NoRetry == engine.safe_runs <= 1

\* C27: of two requests running at the same time on one decoder and cache,
\* each uses and frees only lanes it opened itself, no lane belongs to two
\* requests, and a request whose finally clause ran has left none of its
\* lanes open.
C27_LaneOwnership ==
    \A t \in DOMAIN threads :
        /\ threads[t].used \subseteq threads[t].opened
        /\ threads[t].closed \subseteq threads[t].opened
        /\ \A u \in DOMAIN threads \ {t} : threads[t].opened \cap threads[u].opened = {}
        /\ threads[t].through => threads[t].opened \cap Live(Cache) = {}

\* the consumer has cancelled the stream
Cancelled == req.exc \in {"CancelledError", "GeneratorExit"}

\* a step in which a model is called: by the speculative step or by the
\* autoregressive step
ModelCall ==
    \/ step.pc = "draft" /\ step' # step
    \/ req.pc = "auto" /\ req' # req

\* C29: once the consumer has cancelled generate_stream, at an awaited model
\* call or at a yielded event, no model call is made any more, the events
\* delivered so far stay as they are, and when the generator has finished the
\* lane it opened is not live.
C29_CancelStops ==
    /\ [][Cancelled => ~ModelCall]_vars
    /\ [][Cancelled => req'.events = req.events]_vars
    /\ [](Cancelled /\ req.pc = "done" => req.opened \cap Live(Cache) = {})

\* C28: with allocate and free called from several threads at once no block
\* is held by two callers, a caller that finds the pool empty gets None and
\* never an exception, and once every call has returned each block is either
\* on the free list exactly once with ref_count 0 or held by one caller with
\* ref_count 1.
C28_AllocatorAtomic ==
    /\ \A t \in DOMAIN threads, u \in DOMAIN threads :
          t # u => threads[t].held \cap threads[u].held = {}
    /\ \A t \in DOMAIN threads : threads[t].result # "IndexError"
    /\ (\A t \in DOMAIN threads : threads[t].pc = "idle") =>
          \A b \in BlockIds :
             \/ Count(free_blocks, b) = 1 /\ ref_count[b] = 0
                  /\ \A t \in DOMAIN threads : b \notin threads[t].held
             \/ Count(free_blocks, b) = 0 /\ ref_count[b] = 1
                  /\ \E t \in DOMAIN threads : b \in threads[t].held

\* C40: for every prompt of a batch_speculative_generate call that returned,
\* the token list of its result has at most max_tokens tokens, each of them
\* sampled by the draft model for that prompt, and none of them the stop
\* token.
C40_BatchTokens ==
    (req.pc = "done" /\ req.outcome = "returned") =>
        \A b \in 1 .. req.batch_size :
            /\ Len(req.results[b]) <= req.max_tokens
            /\ \A i \in 1 .. Len(req.results[b]) :
                  /\ Contains(req.produced[b], req.results[b][i])
                  /\ req.results[b][i] # eos_token_id

\* a loop iteration of generate or generate_stream that returns to the loop
\* test has added a token
IterationAdds ==
    (req.entry \in {"generate", "stream"} /\ req.pc = "collect" /\ req'.pc = "loop") =>
        Len(req'.generated_tokens) > Len(req.generated_tokens)

\* a speculative or autoregressive step is started only below max_tokens
StepBelowCap ==
    (req.entry \in {"generate", "stream"} /\ req.pc = "loop" /\ req'.pc \in {"step", "auto"}) =>
        Len(req.generated_tokens) < req.max_tokens

\* the batch loop is left with every sequence finished
BatchLeavesFinished ==
    (BatchLoopTest /\ req'.pc = "decode") => all_finished(req)

\* C39: with every model call returning (or raising), every generate call,
\* every stream and every batch call terminates; an iteration of the
\* generation loop either leaves the loop or adds at least one token and is
\* started only below max_tokens, so there are at most max_tokens steps; the
\* batch loop is left with every sequence finished, never by the max_steps
\* bound.
C39_Terminates ==
    /\ [][IterationAdds /\ StepBelowCap /\ BatchLeavesFinished]_vars
    /\ <>(req.pc = "done")

\* a batch of two prompts returned after two steps of depth 2 with
\* max_tokens 3, one step short of max_steps
C39_Witness ==
    /\ req.entry = "batch" /\ req.pc = "done" /\ req.outcome = "returned"
    /\ req.batch_size = 2 /\ req.max_tokens = 3 /\ req.speculation_depth = 2
    /\ req.step = 2 /\ req.max_steps = 3
    /\ \E b \in 1 .. 2 : Len(req.generated_tokens[b]) = 3

\* C38: a returned SpeculativeOutput (K >= 1) has num_accepted + 1 tokens,
\* between 1 and K + 1; the first num_accepted of them are the first
\* num_accepted draft tokens in order; acceptance_rate is num_accepted / K
\* and lies in [0, 1].
C38_OutputShape ==
    step.pc = "returned" =>
        LET tokens == step.accepted_tokens
            rate == acceptance_rate(step)
        IN  /\ step.K >= 1
            /\ Len(tokens) = step.num_accepted + 1
            /\ 1 <= Len(tokens) /\ Len(tokens) <= step.K + 1
            /\ \A n \in 1 .. step.num_accepted : tokens[n] = step.draft_tokens[n]
            /\ rate.n * step.K = step.num_accepted * rate.d
            /\ 0 <= rate.n /\ rate.n <= rate.d

\* a step of depth 2 returned its first draft token and a resampled token in
\* place of the second
C38_Witness ==
    /\ step.pc = "returned" /\ step.K = 2
    /\ step.num_accepted = 1
    /\ Len(step.accepted_tokens) = 2
    /\ step.accepted_tokens[2] # step.draft_tokens[2]

\* C37: an allocate_sequence that fails for want of a free block leaves the
\* live lanes, stats["num_sequences"] and the free list as they were, and in
\* no state is there a lane entry without a block.
C37_FailedOpenNoTrace ==
    /\ [][(OpenLane /\ last_error' = "RuntimeError") =>
             /\ Live(Cache)' = Live(Cache)
             /\ num_sequences(Cache)' = num_sequences(Cache)
             /\ free_blocks' = free_blocks]_vars
    /\ [](\A s \in Live(Cache) : sequences[s].block_ids # << >>)

\* C36: BlockAllocator.free of a block that is not allocated (ref_count 0:
\* never allocated or already freed) reports an error and changes neither the
\* free list nor any ref_count; no block id is on the free list twice.
C36_FreeUnallocated ==
    /\ [][\A b \in BlockIds :
             (AllocatorFree(b) /\ ref_count[b] = 0) =>
                /\ last_error' # "none"
                /\ free_blocks' = free_blocks
                /\ ref_count' = ref_count]_vars
    /\ [](\A b \in BlockIds : Count(free_blocks, b) <= 1)

\* a sequence back to front
Reversed(q) == [i \in 1 .. Len(q) |-> q[Len(q) + 1 - i]]

\* C35: free_sequence of a live lane pushes the blocks of its table onto the
\* free list from the last to the first, so that the next allocate returns
\* the lane's first block, block_ids[0].
C35_ReverseRelease ==
    [][\A seq_id \in returned :
          (seq_id \in Live(Cache) /\ CloseLane(seq_id)) =>
             LET ids == sequences[seq_id].block_ids
             IN  /\ free_blocks' = free_blocks \o Reversed(ids)
                 /\ allocate(Cache)'.block_id = ids[1]]_vars

C34_WrapperAlone ==
    [][\A seq_id \in returned, T \in 1 .. MaxLaneTokens :
          (WrapperCall(seq_id, T) /\ last_error' = "none") =>
             LET cached == get_cached_length(Cache, seq_id)
                 r == CachedModelWrapper_call(Cache, seq_id, T)
             IN  (cached > 0 /\ cached >= T) =>
                    /\ r.logits_seq_len = T
                    /\ ~has_hf_cache(Cache, seq_id)
                    /\ get_cached_length(Cache, seq_id)' <= Max(cached, T)]_vars

\* C32: when a speculative step with cached models has returned, neither the
\* draft lane nor the target lane holds more positions than the sequence has
\* after the step (the step's input plus the tokens it returned), so no KV of
\* a rejected draft token is kept for the next step.
C32_OnlyAcceptedCached ==
    step.pc = "returned" =>
        LET after_step == step.original_len + Len(step.accepted_tokens)
        IN  /\ draft_uses_cache(step)
                => get_cached_length(Cache, step.draft_seq_id) <= after_step
            /\ target_uses_cache(step)
                => get_cached_length(Cache, step.target_seq_id) <= after_step

\* the slots a read (get_kv, get_hf_cache) takes from the block at block_idx
\* (1-based) of a table: the length of the slice of the block's rows
TakenFromBlock(c, table, block_idx) ==
    LET start_token == (block_idx - 1) * BlockSize
        end_token == Min(start_token + BlockSize, table.num_tokens)
    IN  Len(SliceTo(BlockRow(c, table.block_ids[block_idx], 0), end_token - start_token))

\* the slots of that block that hold a stored token of the lane
StoredInBlock(table, block_idx) ==
    Max(0, Min(BlockSize, table.num_tokens - (block_idx - 1) * BlockSize))

\* C31: every live lane handed to a caller holds ceil(max(num_tokens, 1) / B)
\* blocks, each position below num_tokens lies in a block of the table at an
\* offset below B, and a read takes from each block of the table exactly the
\* slots that hold a stored token.
C31_TableShape ==
    \A s \in Live(Cache) \cap returned :
        LET table == sequences[s]
        IN  /\ Len(table.block_ids) = CeilDiv(Max(table.num_tokens, 1), BlockSize)
            /\ \A p \in 0 .. (table.num_tokens - 1) :
                  LET loc == get_physical_location(table, p)
                  IN  /\ loc.block_idx \in 1 .. Len(table.block_ids)
                      /\ loc.offset \in 0 .. (BlockSize - 1)
            /\ \A block_idx \in 1 .. Len(table.block_ids) :
                  TakenFromBlock(Cache, table, block_idx) = StoredInBlock(table, block_idx)

\* C21: after n tokens were appended with append_token_kv once per layer and
\* mark_token_complete per token, the lane's length is n, it holds
\* ceil(n / block_size) blocks and get_kv returns n entries in every layer.
C21_ManualAppend ==
    \A s \in StoreLanes :
        Ingested(s) > 0 =>
            /\ get_cached_length(Cache, s) = Ingested(s)
            /\ Len(sequences[s].block_ids) = CeilDiv(Ingested(s), BlockSize)
            /\ \A l \in Layers : Len(get_kv(Cache, s, l)) = Ingested(s)

\* what C20 says of a call of the wrapper on lane seq_id that returned
WrapperCallExact(seq_id) ==
    LET cached == get_cached_length(Cache, seq_id)
        T == full_seq_len(step)
        r == CachedModelWrapper_call(Cache, seq_id, T)
    IN  T > cached =>
           /\ r.logits_seq_len = T - cached
           /\ IF cached = 0
              THEN r.past_key_values = None
              ELSE \A l \in Layers : Len(r.past_key_values[l]) = cached
           /\ sequences' = r.c.sequences
           /\ get_cached_length(Cache, seq_id)' = T

Room(c, o) == Len(c.sequences[o].block_ids) * BlockSize - c.sequences[o].num_tokens

\* every store_hf_cache of lane o that fits into the blocks the lane holds
\* succeeds, takes no block and reads back after what was there before
CanContinue(c, o) ==
    \A n \in 1 .. Min(Room(c, o), MaxStore) :
       \A new \in NewSlices(n) :
          LET start_pos == c.sequences[o].num_tokens
              r == store_hf_cache(c, o, WithPrior(start_pos, new), start_pos)
              before == get_hf_cache(c, o)
              after == get_hf_cache(r.c, o)
          IN  /\ r.error = "none"
              /\ r.c.free_blocks = c.free_blocks
              /\ r.c.sequences[o].block_ids = c.sequences[o].block_ids
              /\ r.c.sequences[o].num_tokens = start_pos + n
              /\ \A l \in Layers :
                    /\ \A i \in 1 .. start_pos : after[l][i] = before[l][i]
                    /\ \A i \in 1 .. n :
                          after[l][start_pos + i] = to_storage_dtype(new[l][i])

\* the lanes a step acted on: those whose record of ingested positions grew
\* or was dropped
ActedOn == {s \in DOMAIN ingested : s \notin DOMAIN ingested' \/ ingested'[s] # ingested[s]}

\* a step leaves the live lanes it did not act on as they were
OthersKept ==
    \A o \in (Live(Cache) \cap returned) \ ActedOn :
       /\ o \in Live(Cache)'
       /\ sequences'[o] = sequences[o]
       /\ get_hf_cache(Cache, o)' = get_hf_cache(Cache, o)

\* C30: an allocate_sequence or a store_hf_cache that fails with the
\* out-of-memory error, and the free_sequence calls that release the failed
\* request's lanes afterwards, leave the block table, the cached length and
\* the stored KV of every other live lane as they were; and in every state,
\* so also after the failure and after the release, each live lane can ingest
\* into the room left in the blocks it holds.
C30_FailureIsolated ==
    /\ [][last_error' = "RuntimeError" => OthersKept]_vars
    /\ [][(last_error = "RuntimeError" /\ freed' # freed) => OthersKept]_vars
    /\ [](\A o \in Live(Cache) \cap returned : CanContinue(Cache, o))

\* a call failed on an empty pool while another lane holds one position and
\* has room for one more in its block
C30_Witness ==
    /\ last_error = "RuntimeError"
    /\ free_blocks = << >>
    /\ \E o \in StoreLanes :
          /\ Ingested(o) = 1
          /\ Room(Cache, o) = BlockSize - 1
          /\ \E s \in StoreLanes : s # o /\ Ingested(s) = BlockSize

\* C19: a store_hf_cache that raises the out-of-memory error part-way leaves
\* the lane consistent: num_tokens grew by exactly the positions written in
\* every layer (fewer than were passed), nothing was written at a position
\* that is not counted, len(block_ids) = ceil(max(num_tokens, 1) / B), and
\* get_hf_cache returns what it returned before followed by the positions
\* taken.
C19_FailedStoreConsistent ==
    [][\A seq_id \in returned, n \in 0 .. MaxStore :
          \A new \in NewSlices(n) :
             (Ingest(seq_id, new) /\ last_error' = "RuntimeError") =>
                LET c0 == sequences[seq_id].num_tokens
                    c1 == sequences'[seq_id].num_tokens
                    before == get_hf_cache(Cache, seq_id)
                    after == get_hf_cache(Cache, seq_id)'
                    table == sequences'[seq_id]
                IN  /\ c0 <= c1 /\ c1 < c0 + n
                    /\ Len(table.block_ids) = CeilDiv(Max(c1, 1), BlockSize)
                    /\ c1 > 0 =>
                          \A l \in Layers :
                             /\ Len(after[l]) = c1
                             /\ \A i \in 1 .. c0 : after[l][i] = before[l][i]
                             /\ \A i \in (c0 + 1) .. c1 :
                                   after[l][i] = to_storage_dtype(new[l][i - c0])
                    /\ \A b \in BlockIds, l \in Layers, offset \in Slots :
                          storage'[b][l][offset] # storage[b][l][offset] =>
                             \E pos \in c0 .. (c1 - 1) :
                                LET loc == get_physical_location(table, pos)
                                IN  /\ table.block_ids[loc.block_idx] = b
                                    /\ loc.offset = offset
                    /\ \A o \in Live(Cache) \ {seq_id} : sequences'[o] = sequences[o]]_vars

\* a store_hf_cache call took a position, then found the pool exhausted
C19_Witness ==
    /\ last_error = "RuntimeError"
    /\ last_taken >= 1
    /\ free_blocks = << >>
    /\ \E s \in StoreLanes : Ingested(s) = BlockSize

\* C18: with N blocks and no ingest the first N allocate_sequence calls
\* succeed and the (N+1)-th raises the out-of-memory error; once
\* free_sequence has closed a live lane a further allocate_sequence succeeds;
\* the allocator invariant holds throughout.
C18_ExhaustAndRecover ==
    /\ []((freed = {} /\ next_seq_id <= NumBlocks)
            => (returned = 0 .. (next_seq_id - 1) /\ last_error = "none"))
    /\ []((freed = {} /\ next_seq_id = NumBlocks + 1)
            => (returned = 0 .. (NumBlocks - 1) /\ last_error = "RuntimeError"))
    /\ [][\A seq_id \in returned :
             (seq_id \in Live(Cache) /\ CloseLane(seq_id)) =>
                 /\ allocate_sequence(Cache)'.error = "none"
                 /\ OpenLane => (last_error' = "none" /\ next_seq_id \in returned')]_vars
    /\ [][OpenLane => (last_error' = "none" <=> free_blocks # << >>)]_vars
    /\ []AllocatorInvariant

\* the pool was exhausted, the (N+1)-th call failed, a live lane was closed
\* and the next allocate_sequence returned a lane
C18_Witness ==
    /\ NumBlocks \notin returned /\ NumBlocks \in Live(Cache)
    /\ freed # {}
    /\ (NumBlocks + 1) \in returned
    /\ last_error = "none"

SpecCache == PoolInit /\ [][CacheNext]_vars

SpecPool == PoolInit /\ [][PoolNext]_vars

SpecLanes == PoolInit /\ [][LanesNext]_vars

SpecAppend == PoolInit /\ [][AppendNext]_vars

SpecController == ControllerInit /\ [][Feed]_vars

SpecEngine == EngineInit /\ [][EngineNext]_vars

SpecShared == SharedInit /\ [][SharedNext]_vars

SpecWrapper == PoolInit /\ [][WrapperNext]_vars

SpecBatch == BatchInit /\ [][BatchNext]_vars

\* the call keeps running: some step of TermNext is eventually taken (the
\* raising model call is one of them)
SpecTerm == TermInit /\ [][TermNext]_vars /\ WF_vars(ModelCallRaises \/ TermNext)

SpecCancel == CancelInit /\ [][CancelNext]_vars

SpecThreads == ThreadsInit /\ [][ThreadsNext]_vars

SpecStore == PoolInit /\ [][StoreNext]_vars

SpecGen == GenInit /\ [][GenNext]_vars

====
